---- MODULE Spec2Model ----
(***************************************************************************)
(* vAuto feature verification: the retrying action executor of             *)
(* core/nova_engine.py, the dealership workflow of modules/workflow.py     *)
(* and the feature mapping engines of modules/feature_mapping.             *)
(***************************************************************************)
EXTENDS Integers, Sequences, FiniteSets, TLC

\* ------------------------------------------------------------------ bounds
MaxRetries == 3
MaxTime == 2
MaxSessions == 2
MaxCalls == 2
MaxRuns == 2
MaxVehicles == 2
MaxFeatures == 1
MaxLen == 2
MaxBatch == 2
MaxCorrections == 3
MaxChunks == 2
\* checkboxes of a page, keys of a mapping, names of a list
MaxBoxes == 2
\* characters of a text handed to normalize_text
MaxText == 3

\* the values of config["processing"]["max_vehicles_per_batch"] tried
BatchLimits == {-1, 0, 1}

\* ------------------------------------------------- configuration constants
\* config["processing"]["session_timeout"]
session_timeout == 1

\* the values an action may return; 0 and FALSE-like values are falsy in Python
ActionValues == {0, 1}

\* None, for a session id, a clock value, an error
NoBrowser == 0
NoTime == -1
NoError == "None"
\* the call has neither returned nor raised
NoOut == [kind |-> "none", value |-> 0, attempts |-> 0, cause |-> NoError]

VARIABLES
    \* NovaActEngine fields
    browser,             \* self.browser: None or a session id
    session_start_time,  \* self.session_start_time: None or a clock value
    \* environment of the engine
    now,                 \* datetime.now()
    openSessions,        \* browser processes started and not yet quit
    nextSession,         \* id of the next browser process
    \* one call of execute_action
    ea_pc,               \* position inside execute_action
    max_retries,         \* parameter max_retries
    attempts,            \* local attempts
    last_error,          \* local last_error
    ea_browser,          \* local browser (the session handed to action_fn)
    ea_out,              \* what the call returned or raised
    succeedAt,           \* action_fn: the invocation that returns (0: none)
    action_value,        \* action_fn: the value it returns
    invocations,         \* how often action_fn has been invoked in this call
    sleeps,              \* the backoff sleeps of this call, in order
    sessionFailures,     \* attempts of this call in which ensure_browser raised
    ea_calls,            \* number of execute_action calls made so far
    \* WorkflowModule and one call of run_workflow
    max_vehicles_per_batch, \* config["processing"]["max_vehicles_per_batch"]
    processing_stats,    \* self.processing_stats: key -> value
    wf_pc,               \* position inside run_workflow
    wf_error,            \* the exception travelling to the except clause
    vehicle_urls,        \* local vehicle_urls of run_workflow
    vi,                  \* index of the next vehicle of the for loop
    events,              \* the phases of this run, as they ended
    outcomes,            \* what happened to each vehicle of this run
    runs,                \* number of run_workflow calls made so far
    \* the feature mapping engines and one call of them
    feature_mapping,     \* self.feature_mapping: label -> aliases, in order
    dealership_overrides, \* self.dealership_overrides: pattern -> checkbox
    confidence_threshold, \* self.confidence_threshold, in units of 1/Scale
    category_boosts,     \* self.category_boosts: category -> boost
    m_op,                \* the mapping operation called, or "none"
    m_input,             \* its argument: a feature text or a list of them
    m_result,            \* what it returned
    \* MappingLearner and one call of it
    mapper_kind,         \* self.mapper: the FeatureMapper or a catalog that
                         \* has add_mapping and update_mapping
    corrections,         \* self.corrections: feature text -> records, in order
    corrections_doc,     \* the document in the corrections file
    l_op,                \* the learner operation called last, or "none"
    l_arg,               \* the correction record_correction was called with
    l_result,            \* what the operation returned
    l_mutations,         \* catalog mutations the call performed
    l_calls,             \* record_correction calls made so far
    \* one direct call of ensure_browser
    eb,                  \* the last call: engine before, inputs, outcome
    \* the mapping file shared by two runs
    file,                \* the content of the file, chunk by chunk
    f_pc,                \* run -> position inside _save_mapping/_load_mapping
    f_doc,               \* run -> the document the run is writing
    f_off,               \* run -> the offset of the run's file object
    f_seen,              \* run -> what the run read from the file
    \* two scheduled jobs running run_workflow on the one WorkflowModule
    s_pc,                \* job -> position inside run_workflow
    s_todo,              \* job -> vehicles of its for loop still to come
    s_own,               \* job -> the counters of its own vehicles
    s_ret,               \* job -> the statistics its call returned
    s_session,           \* job -> the session its authentication left
    \* the construction of a mapper from the files of the configuration
    mapping_store,       \* what the mapping file is: its state and document
    override_store,      \* the same for the dealership override file
    ld_op,               \* the class constructed, or "none"
    ld_raised,           \* the exception the constructor let out, or None
    \* one call of a checkbox step on the page of a vehicle
    cb_page,             \* the checkboxes of the page: label and state
    cb_before,           \* the page as it was before the call
    cb_mapping,          \* mapped_features: label -> bool, in dictionary order
    cb_to_check,         \* checkboxes_to_check: a list of names
    cb_op,               \* the step called, or "none"
    cb_result,           \* what the step returned
    \* normalize_text applied to a text and to a variant of it
    nt_missing,          \* the text is None
    nt_x,                \* the text
    nt_y,                \* the variant of the text
    nt_rel,              \* how the variant was made from the text
    nt_op,               \* "none" or "normalized"
    nt_nx,               \* normalize_text(x)
    nt_ny,               \* normalize_text(y)
    nt_nnx,              \* normalize_text(normalize_text(x))
    \* a similarity function applied to two texts, in both orders
    sm_a,                \* the first text
    sm_b,                \* the second text
    sm_op,               \* the function applied, or "none"
    sm_ab,               \* score(a, b)
    sm_ba,               \* score(b, a)
    \* _discover_inventory
    wf_discovered,       \* how many vehicles discover_inventory returned
    \* apply_suggestions
    l_raised,            \* the last call ended in its except clause
    \* AuthenticationModule of the draft package and the page it drives
    au_page,             \* what the browser does and shows during a login
    au_config,           \* requires_2fa and whether a 2FA code is configured
    is_authenticated,    \* AuthenticationModule.is_authenticated
    au_op,               \* "login" once login() was called, else "none"
    au_result            \* what the last login() returned

engineVars == <<browser, session_start_time, now, openSessions, nextSession>>
eaVars == <<ea_pc, max_retries, attempts, last_error, ea_browser, ea_out,
            succeedAt, action_value, invocations, sleeps, sessionFailures,
            ea_calls>>
wfVars == <<max_vehicles_per_batch, processing_stats, wf_pc, wf_error,
            vehicle_urls, vi, events, outcomes, runs>>
learnVars == <<mapper_kind, corrections, corrections_doc, l_op, l_arg,
               l_result, l_mutations, l_calls>>
fileVars == <<file, f_pc, f_doc, f_off, f_seen>>
schedVars == <<s_pc, s_todo, s_own, s_ret, s_session>>
\* the state of the later sections
loadVars == <<mapping_store, override_store, ld_op, ld_raised>>
pageVars == <<cb_page, cb_before, cb_mapping, cb_to_check, cb_op, cb_result>>
textVars == <<nt_missing, nt_x, nt_y, nt_rel, nt_op, nt_nx, nt_ny, nt_nnx>>
simVars == <<sm_a, sm_b, sm_op, sm_ab, sm_ba>>
authVars == <<au_page, au_config, is_authenticated, au_op, au_result>>
lastVars == <<simVars, wf_discovered, l_raised, authVars>>
moreVars == <<pageVars, textVars, lastVars>>
laterVars == <<schedVars, loadVars, moreVars>>
\* what no mapping operation touches
otherVars == <<learnVars, eb, fileVars, laterVars>>
\* the fields of the mapper and of one call of it
mapOwn == <<feature_mapping, dealership_overrides, confidence_threshold,
            category_boosts, m_op, m_input, m_result>>
mapVars == <<feature_mapping, dealership_overrides, confidence_threshold,
             category_boosts, m_op, m_input, m_result, otherVars>>
vars == <<engineVars, eaVars, wfVars, mapVars>>

\* ------------------------------------------------------------ NovaActEngine

\* the backoff computed from the attempts before the failed one
Pow2_from_zero(n) == IF n = 0 THEN 1 ELSE 2 ^ (n - 1)

\* 2 ** attempts
Pow2(n) == IF n = 0 THEN 1 ELSE IF n = 1 THEN 2 ELSE IF n = 2 THEN 4
           ELSE IF n = 3 THEN 8 ELSE IF n = 4 THEN 16 ELSE 32

\* a session whose age is exactly the maximum still counts as valid
is_session_valid_inclusive(b, sst, t, probe) ==
    IF b = NoBrowser \/ sst = NoTime THEN FALSE
    ELSE IF probe THEN (t - sst) <= session_timeout
    ELSE FALSE

\* is_session_valid: probe is the outcome of reading browser.current_url
is_session_valid(b, sst, t, probe) ==
    IF b = NoBrowser \/ sst = NoTime THEN FALSE
    ELSE IF probe THEN (t - sst) < session_timeout
    ELSE FALSE

\* the engine's fields together with the browser processes of the machine
Eng == [browser |-> browser, sst |-> session_start_time,
        open |-> openSessions, next |-> nextSession]

\* the outcomes of initialize_browser: webdriver.Chrome raises, or
\* implicitly_wait raises after self.browser was assigned, or it returns
InitOutcomes == {"ok", "chrome_raises", "wait_raises"}

\* initialize_browser at clock value t; the previous self.browser, if any, is
\* overwritten without being quit
initialize_browser(e, t, io) ==
    IF io = "chrome_raises" \/ e.next > MaxSessions
    THEN [eng |-> e, raised |-> TRUE]
    ELSE IF io = "wait_raises"
    THEN [eng |-> [e EXCEPT !.browser = e.next,
                            !.open = e.open \cup {e.next},
                            !.next = e.next + 1],
          raised |-> TRUE]
    ELSE [eng |-> [e EXCEPT !.browser = e.next, !.sst = t,
                            !.open = e.open \cup {e.next},
                            !.next = e.next + 1],
          raised |-> FALSE]

\* close_browser without the finally clause: a raising quit leaves the fields
close_browser_nofinally(e, quitOk) ==
    IF e.browser = NoBrowser THEN e
    ELSE IF quitOk
    THEN [e EXCEPT !.browser = NoBrowser, !.sst = NoTime,
                   !.open = e.open \ {e.browser}]
    ELSE e

\* close_browser: quit may raise (quitOk = FALSE); the error is logged and the
\* fields are cleared in the finally clause either way
close_browser(e, quitOk) ==
    IF e.browser = NoBrowser THEN e
    ELSE [e EXCEPT !.browser = NoBrowser, !.sst = NoTime,
                   !.open = IF quitOk THEN e.open \ {e.browser} ELSE e.open]

\* the session is handed out without the validity check
ensure_browser_unchecked(e, t, probe, quitOk, io) ==
    [eng |-> e, raised |-> FALSE]

\* ensure_browser: keep a valid session, else close the old one and start anew
ensure_browser(e, t, probe, quitOk, io) ==
    IF is_session_valid(e.browser, e.sst, t, probe)
    THEN [eng |-> e, raised |-> FALSE]
    ELSE initialize_browser(
             IF e.browser # NoBrowser THEN close_browser(e, quitOk) ELSE e,
             t, io)

\* the engine takes the state e
SetEngine(e) ==
    /\ browser' = e.browser
    /\ session_start_time' = e.sst
    /\ openSessions' = e.open
    /\ nextSession' = e.next
    /\ UNCHANGED now

\* time passes
Tick ==
    /\ now < MaxTime
    /\ now' = now + 1
    /\ UNCHANGED <<browser, session_start_time, openSessions, nextSession>>
    /\ UNCHANGED <<eaVars, wfVars, mapVars>>

\* no call of ensure_browser made yet
NoCall == [called |-> FALSE, before |-> [browser |-> NoBrowser, sst |-> NoTime,
                                         open |-> {}, next |-> 1],
           at |-> 0, probe |-> FALSE, quitOk |-> FALSE, io |-> "ok",
           raised |-> FALSE, returned |-> NoBrowser]

\* a direct call of ensure_browser, as the modules make it; the call is
\* recorded with the engine it found and what it returned
EnsureBrowser ==
    /\ \E probe \in BOOLEAN, quitOk \in BOOLEAN, io \in InitOutcomes :
         LET r == ensure_browser(Eng, now, probe, quitOk, io) IN
         /\ SetEngine(r.eng)
         /\ eb' = [called |-> TRUE, before |-> Eng, at |-> now,
                   probe |-> probe, quitOk |-> quitOk, io |-> io,
                   raised |-> r.raised,
                   returned |-> IF r.raised THEN NoBrowser
                                ELSE r.eng.browser]
    /\ UNCHANGED <<eaVars, wfVars, feature_mapping, dealership_overrides,
                   confidence_threshold, category_boosts, m_op, m_input,
                   m_result, learnVars, fileVars, laterVars>>

\* ----------------------------------------------------------- execute_action

\* the call: execute_action(action_fn, max_retries)
EaCall ==
    /\ ea_pc \in {"idle", "returned", "raised"}
    /\ ea_calls < MaxCalls
    /\ \E mr \in 0..MaxRetries, k \in 0..(MaxRetries + 1), v \in ActionValues :
          /\ max_retries' = mr
          /\ succeedAt' = k
          /\ action_value' = v
    /\ attempts' = 0
    /\ last_error' = NoError
    /\ ea_browser' = NoBrowser
    /\ ea_out' = NoOut
    /\ invocations' = 0
    /\ sleeps' = <<>>
    /\ sessionFailures' = 0
    /\ ea_calls' = ea_calls + 1
    /\ ea_pc' = "loop"
    /\ UNCHANGED <<engineVars, wfVars, mapVars>>

\* while attempts < max_retries
EaLoop ==
    /\ ea_pc = "loop"
    /\ IF attempts < max_retries
       THEN /\ ea_pc' = "ensure"
            /\ ea_out' = ea_out
       ELSE /\ ea_pc' = "raised"
            /\ ea_out' = [kind |-> "raise", value |-> 0,
                          attempts |-> max_retries, cause |-> last_error]
    /\ UNCHANGED <<engineVars, wfVars, mapVars>>
    /\ UNCHANGED <<max_retries, attempts, last_error, ea_browser, succeedAt,
                   action_value, invocations, sleeps, sessionFailures,
                   ea_calls>>

\* browser = await self.ensure_browser()
EaEnsure ==
    /\ ea_pc = "ensure"
    /\ \E probe \in BOOLEAN, quitOk \in BOOLEAN, io \in InitOutcomes :
         LET r == ensure_browser(Eng, now, probe, quitOk, io) IN
         /\ SetEngine(r.eng)
         /\ IF r.raised
            THEN /\ last_error' = "session"
                 /\ sessionFailures' = sessionFailures + 1
                 /\ ea_pc' = "except"
                 /\ UNCHANGED ea_browser
            ELSE /\ ea_browser' = r.eng.browser
                 /\ ea_pc' = "action"
                 /\ UNCHANGED <<last_error, sessionFailures>>
    /\ UNCHANGED <<max_retries, attempts, ea_out, succeedAt, action_value,
                   invocations, sleeps, ea_calls>>
    /\ UNCHANGED <<wfVars, mapVars>>

\* the value action_fn gives on its n-th invocation, or "raise"
action_fn(n) == IF succeedAt # 0 /\ n >= succeedAt THEN "return" ELSE "raise"

\* a falsy result taken for a failure
ReturnsResult_truthy(v) == v # 0

\* what execute_action does with the result of action_fn: line 160 returns
\* it whatever it is
ReturnsResult(v) == TRUE

\* result = await action_fn(browser); return result
EaAction ==
    /\ ea_pc = "action"
    /\ invocations' = invocations + 1
    /\ IF action_fn(invocations + 1) = "return" /\ ReturnsResult(action_value)
       THEN /\ ea_out' = [kind |-> "return", value |-> action_value,
                            attempts |-> 0, cause |-> NoError]
            /\ ea_pc' = "returned"
            /\ UNCHANGED last_error
       ELSE /\ last_error' = "action"
            /\ ea_pc' = "except"
            /\ UNCHANGED ea_out
    /\ UNCHANGED <<engineVars, wfVars, mapVars>>
    /\ UNCHANGED <<max_retries, attempts, ea_browser, succeedAt, action_value,
                   sleeps, sessionFailures, ea_calls>>

\* the retry loop left one attempt early
BreakBound_early(mr) == mr - 1

\* the bound the except clause compares attempts with before it sleeps
BreakBound(mr) == mr

\* except Exception: attempts += 1; break or sleep 2 ** attempts
EaExcept ==
    /\ ea_pc = "except"
    /\ attempts' = attempts + 1
    /\ IF attempts + 1 >= BreakBound(max_retries)
       THEN /\ ea_pc' = "raised"
            /\ ea_out' = [kind |-> "raise", value |-> 0,
                          attempts |-> max_retries, cause |-> last_error]
            /\ UNCHANGED sleeps
       ELSE /\ sleeps' = Append(sleeps, Pow2(attempts + 1))
            /\ ea_pc' = "loop"
            /\ UNCHANGED ea_out
    /\ UNCHANGED <<engineVars, wfVars, mapVars>>
    /\ UNCHANGED <<max_retries, last_error, ea_browser, succeedAt,
                   action_value, invocations, sessionFailures, ea_calls>>

InitEngine ==
    /\ browser = NoBrowser
    /\ session_start_time = NoTime
    /\ now = 0
    /\ openSessions = {}
    /\ nextSession = 1

InitEa ==
    /\ ea_pc = "idle"
    /\ max_retries = 0
    /\ attempts = 0
    /\ last_error = NoError
    /\ ea_browser = NoBrowser
    /\ ea_out = NoOut
    /\ succeedAt = 0
    /\ action_value = 0
    /\ invocations = 0
    /\ sleeps = <<>>
    /\ sessionFailures = 0
    /\ ea_calls = 0

\* ----------------------------------------------------------- WorkflowModule

\* the six counters of the statistics
CounterKeys == {"vehicles_processed", "successful_updates", "failed_updates",
                "features_found", "features_mapped", "checkboxes_updated"}

\* _reset_stats: a fresh dictionary with the counters at 0 and start_time
reset_stats(t) ==
    [k \in CounterKeys \cup {"start_time"} |->
        IF k = "start_time" THEN t ELSE 0]

\* self.processing_stats[k] += d
Inc(stats, k, d) == [stats EXCEPT ![k] = @ + d]

\* self.processing_stats[k] = v, for a key that may be new
SetKey(stats, k, v) ==
    [x \in DOMAIN stats \cup {k} |-> IF x = k THEN v ELSE stats[x]]

\* _authenticate: the authentication module must be registered, then
\* initialize_browser, then ensure_browser, then authenticate(browser, config);
\* the set of the ways it can end from engine state e at clock value t
authenticate(e, t) ==
    {[eng |-> e, raised |-> TRUE]}                    \* module not registered
    \cup UNION {
        LET r1 == initialize_browser(e, t, io1) IN
        IF r1.raised THEN {r1}
        ELSE UNION {
            LET r2 == ensure_browser(r1.eng, t, probe, quitOk, io2) IN
            IF r2.raised THEN {r2}
            ELSE {[eng |-> r2.eng, raised |-> authRaises] :
                      authRaises \in BOOLEAN} :
            probe \in BOOLEAN, quitOk \in BOOLEAN, io2 \in InitOutcomes} :
        io1 \in InitOutcomes}

\* the call: run_workflow(dealer_config) up to the try statement
WfStart ==
    /\ wf_pc \in {"idle", "returned", "propagated"}
    /\ runs < MaxRuns
    /\ runs' = runs + 1
    /\ processing_stats' = reset_stats(now)
    /\ wf_pc' = "authenticate"
    /\ wf_error' = NoError
    /\ vehicle_urls' = <<>>
    /\ vi' = 1
    /\ events' = <<>>
    /\ outcomes' = <<>>
    /\ UNCHANGED <<engineVars, eaVars, mapVars, max_vehicles_per_batch>>

\* an exception of the initial authentication is swallowed
AfterAuth_swallow(raised) == "discover"

\* where run_workflow goes after await self._authenticate(dealer_config)
AfterAuth(raised) == IF raised THEN "except" ELSE "discover"

\* await self._authenticate(dealer_config)
WfAuthenticate ==
    /\ wf_pc = "authenticate"
    /\ \E r \in authenticate(Eng, now) :
         /\ SetEngine(r.eng)
         /\ wf_pc' = AfterAuth(r.raised)
         /\ wf_error' = IF r.raised THEN "authentication" ELSE wf_error
         /\ events' = Append(events,
                         IF r.raised THEN "auth_raised" ELSE "auth_ok")
    /\ UNCHANGED <<eaVars, mapVars, max_vehicles_per_batch, processing_stats,
                   vehicle_urls, vi, outcomes, runs>>

\* the vehicles the inventory module discovered: 1, 2, ..., n
Discovered(n) == [j \in 1..n |-> j]

\* the limit keeps the last vehicles discovered
ApplyLimit_last(urls, m) ==
    IF m > 0 /\ Len(urls) > m
    THEN SubSeq(urls, Len(urls) - m + 1, Len(urls)) ELSE urls

\* vehicle_urls[:max_vehicles] when the limit applies
ApplyLimit(urls, m) ==
    IF m > 0 /\ Len(urls) > m THEN SubSeq(urls, 1, m) ELSE urls

\* vehicle_urls = await self._discover_inventory(dealer_config)
WfDiscover ==
    /\ wf_pc = "discover"
    /\ \/ \* the module is not registered or discover_inventory raises
          /\ wf_pc' = "except"
          /\ wf_error' = "discovery"
          /\ events' = Append(events, "discover_raised")
          /\ UNCHANGED <<vehicle_urls, wf_discovered>>
       \/ \E n \in 0..MaxVehicles :
          /\ wf_discovered' = n
          /\ vehicle_urls' = ApplyLimit(Discovered(n), max_vehicles_per_batch)
          /\ wf_pc' = "setup"
          /\ events' = Append(events, "discover_ok")
          /\ UNCHANGED wf_error
    /\ UNCHANGED <<engineVars, eaVars, mapOwn, learnVars, eb, fileVars,
                   schedVars, loadVars, pageVars, textVars, simVars,
                   l_raised, authVars, max_vehicles_per_batch,
                   processing_stats, vi, outcomes, runs>>

\* _process_vehicles up to the for loop: the three modules must be
\* registered (else ValueError) and configs/feature_mapping.json must load
\* (else the exception of open or json.load is logged and raised again)
WfSetup ==
    /\ wf_pc = "setup"
    /\ \/ /\ wf_pc' = "except"
          /\ wf_error' = "setup"
          /\ events' = Append(events, "setup_raised")
       \/ /\ wf_pc' = "except"
          /\ wf_error' = "catalog"
          /\ events' = Append(events, "setup_raised")
       \/ /\ wf_pc' = "vehicles"
          /\ events' = Append(events, "setup_ok")
          /\ UNCHANGED wf_error
    /\ vi' = 1
    /\ UNCHANGED <<engineVars, eaVars, mapVars, max_vehicles_per_batch,
                   processing_stats, vehicle_urls, outcomes, runs>>

\* a vehicle with failed checkboxes counted as a success as well
count_outcome_both(stats, failed) ==
    IF failed > 0
    THEN Inc(Inc(stats, "failed_updates", 1), "successful_updates", 1)
    ELSE Inc(stats, "successful_updates", 1)

\* lines 224-227: one of failed_updates, successful_updates goes up by one
count_outcome(stats, failed) ==
    IF failed > 0 THEN Inc(stats, "failed_updates", 1)
    ELSE Inc(stats, "successful_updates", 1)

\* the except clause of the for loop, line 234
count_raised(stats) == Inc(stats, "failed_updates", 1)

\* what the collaborators do for one vehicle: the step that raises (or
\* "none"; "results" is a result of update_checkboxes without the key
\* 'failed', which raises at line 224), the number of features extracted, the
\* number of true entries of the mapping, results['updated'], results['failed']
VehicleInputs ==
    {in \in [at : {"extract", "map", "update", "results", "none"},
             nf : 0..MaxFeatures, nm : 0..MaxFeatures,
             upd : 0..MaxFeatures, failed : 0..1] :
        /\ in.nm <= in.nf /\ in.upd <= in.nm
        /\ (in.at # "none" => in.failed = 0)
        /\ (in.at \in {"extract", "map", "update"} => in.upd = 0)
        /\ (in.at = "extract" => in.nf = 0)
        /\ (in.at \in {"extract", "map"} => in.nm = 0)}

\* the vehicle's iteration raised in the re-authentication
ReauthRaised == [at |-> "reauth", nf |-> 0, nm |-> 0, upd |-> 0, failed |-> 0]

\* lines 206-227 and 232-234: the counters after the iteration with inputs in
vehicle_stats(stats, in) ==
    LET s1 == IF in.at \in {"reauth", "extract"} THEN stats
              ELSE Inc(stats, "features_found", in.nf)
        s2 == IF in.at \in {"reauth", "extract", "map"} THEN s1
              ELSE Inc(s1, "features_mapped", in.nm)
        s3 == IF in.at \in {"reauth", "extract", "map", "update"} THEN s2
              ELSE Inc(Inc(s2, "checkboxes_updated", in.upd),
                       "vehicles_processed", 1)
    IN IF in.at # "none" THEN count_raised(s3)
       ELSE count_outcome(s3, in.failed)

\* the record kept of one vehicle
Outcome(v, in, reauth) ==
    [vehicle |-> v, raisedAt |-> in.at, reauth |-> reauth,
     result |-> IF in.at # "none" THEN "raised"
                ELSE IF in.failed > 0 THEN "failed" ELSE "success"]

\* one iteration of the for loop of _process_vehicles for vehicle_urls[vi]:
\* the session check and re-authentication, extraction, mapping, checkbox
\* update and the counters, with the except clause of the iteration
WfVehicle ==
    /\ wf_pc = "vehicles"
    /\ vi <= Len(vehicle_urls)
    /\ \E probe \in BOOLEAN :
         LET valid == is_session_valid(browser, session_start_time, now,
                                       probe)
         IN \E r \in (IF valid THEN {[eng |-> Eng, raised |-> FALSE]}
                      ELSE authenticate(Eng, now)) :
            \E in \in (IF r.raised THEN {ReauthRaised} ELSE VehicleInputs) :
              /\ SetEngine(r.eng)
              /\ processing_stats' = vehicle_stats(processing_stats, in)
              /\ outcomes' = Append(outcomes,
                                Outcome(vehicle_urls[vi], in, ~valid))
    /\ vi' = vi + 1
    /\ UNCHANGED <<eaVars, mapVars, max_vehicles_per_batch, wf_pc, wf_error,
                   vehicle_urls, events, runs>>

\* the except clause of run_workflow forgets the failure reason
failure_stats_silent(stats, e) == stats

\* self.processing_stats['error'] = str(e)
failure_stats(stats, e) == SetKey(stats, "error", e)

\* the for loop is over: processing time, the log lines, return
WfComplete ==
    /\ wf_pc = "vehicles"
    /\ vi > Len(vehicle_urls)
    /\ processing_stats' =
           SetKey(processing_stats, "processing_time_minutes",
                  now - processing_stats["start_time"])
    /\ wf_pc' = "finally"
    /\ UNCHANGED <<engineVars, eaVars, mapVars, max_vehicles_per_batch, wf_error,
                   vehicle_urls, vi, events, outcomes, runs>>

\* only a ValueError is caught
Caught_valueerror(e) == e = "setup"

\* except Exception: every error the three phases raise is an Exception
Caught(e) == TRUE

\* except Exception as e: record the reason, return
WfExcept ==
    /\ wf_pc = "except"
    /\ IF Caught(wf_error)
       THEN /\ processing_stats' = failure_stats(processing_stats, wf_error)
            /\ wf_pc' = "finally"
       ELSE /\ wf_pc' = "finally_raise"
            /\ UNCHANGED processing_stats
    /\ UNCHANGED <<engineVars, eaVars, mapVars, max_vehicles_per_batch, wf_error,
                   vehicle_urls, vi, events, outcomes, runs>>

\* finally: await self.nova_engine.close_browser(); then the call returns
\* the statistics (or the exception that was not caught goes on)
WfFinally ==
    /\ wf_pc \in {"finally", "finally_raise"}
    /\ \E quitOk \in BOOLEAN :
         /\ (browser = NoBrowser => quitOk)
         /\ SetEngine(close_browser(Eng, quitOk))
         /\ events' = Append(events,
                         IF quitOk THEN "closed" ELSE "quit_raised")
    /\ wf_pc' = IF wf_pc = "finally" THEN "returned" ELSE "propagated"
    /\ UNCHANGED <<eaVars, mapVars, max_vehicles_per_batch, processing_stats,
                   wf_error, vehicle_urls, vi, outcomes, runs>>

InitWfState ==
    /\ processing_stats = [k \in CounterKeys |-> 0]
    /\ wf_pc = "idle"
    /\ wf_error = NoError
    /\ vehicle_urls = <<>>
    /\ vi = 1
    /\ events = <<>>
    /\ outcomes = <<>>
    /\ runs = 0
    /\ wf_discovered = 0
    /\ l_raised = FALSE

\* the workflow module is constructed from the system configuration
InitWf == max_vehicles_per_batch \in BatchLimits /\ InitWfState

\* a workflow module that is never run
InitWfIdle == max_vehicles_per_batch = 0 /\ InitWfState

\* ----------------------------------------------------------- feature texts

\* the characters of a text: lower-case letters, an upper-case letter, a
\* punctuation mark and the blank
Chars == {"a", "b", "A", "-", " "}

\* the texts of at most n characters
RECURSIVE TextsUpTo(_)
TextsUpTo(n) ==
    IF n = 0 THEN {<<>>}
    ELSE LET shorter == TextsUpTo(n - 1) IN
         shorter \cup {Append(t, c) : t \in {x \in shorter : Len(x) = n - 1},
                                      c \in Chars}

Texts == TextsUpTo(MaxLen)

\* str.lower on one character
LowerChar(c) == IF c = "A" THEN "a" ELSE IF c = "B" THEN "b" ELSE c

\* text.lower()
Lower(t) == [j \in 1..Len(t) |-> LowerChar(t[j])]

\* the hyphen counts as a word character
IsWord_with_hyphen(c) == c \in {"a", "b", "A", "B", "1", "_", "-"}

\* \w and \s of the regular expressions: letters, digits and the underscore
\* are word characters, the blank and the tab are whitespace
IsWord(c) == c \in {"a", "b", "A", "B", "1", "_"}
IsSpace(c) == c \in {" ", "\t"}

\* re.sub(r'\s+', ' ', t): every run of whitespace becomes one blank
RECURSIVE CollapseSpaces(_)
CollapseSpaces(t) ==
    IF t = <<>> THEN t
    ELSE IF ~IsSpace(t[1]) THEN <<t[1]>> \o CollapseSpaces(Tail(t))
    ELSE IF Len(t) >= 2 /\ IsSpace(t[2]) THEN CollapseSpaces(Tail(t))
    ELSE <<" ">> \o CollapseSpaces(Tail(t))

\* t.strip()
RECURSIVE Strip(_)
Strip(t) ==
    IF t = <<>> THEN t
    ELSE IF IsSpace(t[1]) THEN Strip(Tail(t))
    ELSE IF IsSpace(t[Len(t)]) THEN Strip(SubSeq(t, 1, Len(t) - 1))
    ELSE t

\* normalize_text without the lower-casing step
normalize_text_keepcase(t) ==
    IF t = <<>> THEN <<>>
    ELSE Strip(CollapseSpaces(
           [j \in 1..Len(t) |->
               IF IsWord(t[j]) \/ IsSpace(t[j]) THEN t[j] ELSE " "]))

\* normalize_text: lower-case, special characters to blanks, runs of blanks
\* to one blank, strip
normalize_text(t) ==
    IF t = <<>> THEN <<>>
    ELSE Strip(CollapseSpaces(
           [j \in 1..Len(t) |->
               LET c == LowerChar(t[j]) IN
               IF IsWord(c) \/ IsSpace(c) THEN c ELSE " "]))

\* p in t, for two strings
Contains(p, t) ==
    \E j \in 0..(Len(t) - Len(p)) : SubSeq(t, j + 1, j + Len(p)) = p

\* --------------------------------------------------------------- similarity

RECURSIVE Gcd(_, _)
Gcd(x, y) == IF y = 0 THEN x ELSE Gcd(y, x % y)

RECURSIVE LcmUpTo(_)
LcmUpTo(n) == IF n <= 1 THEN 1
              ELSE LET l == LcmUpTo(n - 1) IN (l * n) \div Gcd(l, n)

\* scores are kept as integers in units of 1/Scale, so that every ratio
\* 2*M/T of a text and an alias (of at most 3 characters) and every boost is
\* exact
Scale == 20 * LcmUpTo(MaxLen + 3)
One == Scale

\* SequenceMatcher.find_longest_match: the longest common block, the
\* earliest in a and then the earliest in b among the longest
LongestMatch(a, b) ==
    LET blocks == {blk \in [i : 1..Len(a), j : 1..Len(b), k : 1..Len(a)] :
                      /\ blk.i + blk.k - 1 <= Len(a)
                      /\ blk.j + blk.k - 1 <= Len(b)
                      /\ SubSeq(a, blk.i, blk.i + blk.k - 1)
                            = SubSeq(b, blk.j, blk.j + blk.k - 1)}
    IN IF blocks = {} THEN [i |-> 0, j |-> 0, k |-> 0]
       ELSE CHOOSE x \in blocks :
              \A y \in blocks :
                 \/ x.k > y.k
                 \/ x.k = y.k /\ x.i < y.i
                 \/ x.k = y.k /\ x.i = y.i /\ x.j <= y.j

\* the total size of SequenceMatcher.get_matching_blocks
RECURSIVE MatchSize(_, _)
MatchSize(a, b) ==
    IF a = <<>> \/ b = <<>> THEN 0
    ELSE LET blk == LongestMatch(a, b) IN
         IF blk.k = 0 THEN 0
         ELSE blk.k
              + MatchSize(SubSeq(a, 1, blk.i - 1), SubSeq(b, 1, blk.j - 1))
              + MatchSize(SubSeq(a, blk.i + blk.k, Len(a)),
                          SubSeq(b, blk.j + blk.k, Len(b)))

\* SequenceMatcher(None, a, b).ratio(), in units of 1/Scale
Ratio(a, b) ==
    IF Len(a) + Len(b) = 0 THEN One
    ELSE (2 * MatchSize(a, b) * Scale) \div (Len(a) + Len(b))

\* calculate_similarity: the ratio of the two normalized texts
calculate_similarity(text1, text2) ==
    Ratio(normalize_text(text1), normalize_text(text2))

\* int(round(x / y)) of Python: halves go to the even neighbour
RoundDiv(x, y) ==
    LET q == x \div y
        r == x % y
    IN IF 2 * r < y THEN q
       ELSE IF 2 * r > y THEN q + 1
       ELSE IF q % 2 = 0 THEN q ELSE q + 1

\* fuzzywuzzy's fuzz.ratio, the similarity_algorithm of the configuration:
\* 0 for an empty string, else the ratio as a whole number from 0 to 100;
\* here in units of 1/Scale as every score
similarity_algorithm(a, b) ==
    IF a = <<>> \/ b = <<>> THEN 0
    ELSE RoundDiv(200 * MatchSize(a, b), Len(a) + Len(b)) * Scale

\* the score left as it is, above 1.0
Min_uncapped(x, y) == y

\* min(x, y)
Min(x, y) == IF x <= y THEN x ELSE y

\* ------------------------------------------------------------------ mapping

\* the result None
NoMatch == [label |-> "None", conf |-> 0, source |-> "none"]

\* the first element of a sequence that satisfies P, or 0
FirstIndex(seq, P(_)) ==
    IF \E j \in 1..Len(seq) : P(seq[j])
    THEN CHOOSE j \in 1..Len(seq) :
            P(seq[j]) /\ \A h \in 1..(j - 1) : ~P(seq[h])
    ELSE 0

\* get_category_boost: the boost of the first category whose lower-cased
\* name is part of the normalized feature text, else 0
get_category_boost(t) ==
    LET n == normalize_text(t)
        j == FirstIndex(category_boosts, LAMBDA c : Contains(Lower(c.name), n))
    IN IF j = 0 THEN 0 ELSE category_boosts[j].boost

\* the override lookup comparing against the raw feature text
check_dealership_override_raw(t) ==
    LET j == FirstIndex(dealership_overrides,
                        LAMBDA o : Contains(Lower(o.pattern), t))
    IN IF j = 0 THEN NoMatch
       ELSE [label |-> dealership_overrides[j].checkbox, conf |-> One,
             source |-> "override"]

\* check_dealership_override: the checkbox of the first pattern whose
\* lower-cased form is part of the normalized feature text, with 1.0
check_dealership_override(t) ==
    LET n == normalize_text(t)
        j == FirstIndex(dealership_overrides,
                        LAMBDA o : Contains(Lower(o.pattern), n))
    IN IF j = 0 THEN NoMatch
       ELSE [label |-> dealership_overrides[j].checkbox, conf |-> One,
             source |-> "override"]

\* the (label, alias) pairs of the catalog in its iteration order
RECURSIVE Pairs(_)
Pairs(cat) ==
    IF cat = <<>> THEN <<>>
    ELSE [j \in 1..Len(cat[1].aliases) |->
             [label |-> cat[1].label, alias |-> cat[1].aliases[j]]]
         \o Pairs(Tail(cat))

\* a pair with an equal score replaces the best one
Replaces_on_tie(f, best_score) == f >= best_score

\* if final_score > best_score
Replaces(f, best_score) == f > best_score

\* the fuzzy loop: best_match and best_score after the pairs ps, where
\* score(alias) is the final score of a pair; a later pair replaces the best
\* one only with a strictly greater score
RECURSIVE BestOf(_, _, _)
BestOf(ps, score(_), best) ==
    IF ps = <<>> THEN best
    ELSE LET f == score(ps[1].alias) IN
         BestOf(Tail(ps), score,
                IF Replaces(f, best.conf)
                THEN [label |-> ps[1].label, conf |-> f, source |-> "fuzzy"]
                ELSE best)

\* the threshold test with > in place of >=
MeetsThreshold_strict(score) == score > confidence_threshold

\* best_score >= self.confidence_threshold
MeetsThreshold(score) == score >= confidence_threshold

\* the override is looked up after the exact match
map_single_feature_exact_first(t) ==
    LET ps == Pairs(feature_mapping)
        direct == FirstIndex(ps, LAMBDA q : q.alias = t)
        override == check_dealership_override(t)
    IN IF direct # 0
       THEN [label |-> ps[direct].label, conf |-> One, source |-> "exact"]
       ELSE override

\* FeatureMapper._map_single_feature: override, then the feature text among
\* the aliases of a label, then the fuzzy pass over the lower-cased texts;
\* the function returns the label only, conf is the score behind it
map_single_feature(t) ==
    LET override == check_dealership_override(t)
        ps == Pairs(feature_mapping)
        direct == FirstIndex(ps, LAMBDA q : q.alias = t)
        boost == get_category_boost(t)
        best == BestOf(ps,
                       LAMBDA alias :
                          Min(One, similarity_algorithm(Lower(t), Lower(alias))
                                   + boost),
                       NoMatch)
    IN IF override # NoMatch THEN override
       ELSE IF direct # 0
       THEN [label |-> ps[direct].label, conf |-> One, source |-> "exact"]
       ELSE IF MeetsThreshold(best.conf) THEN best
       ELSE NoMatch

\* the number of similarity_algorithm calls of _map_single_feature(t): none
\* when the override or the direct lookup returns, else one for every alias
\* of the catalog
scores_computed(t) ==
    LET ps == Pairs(feature_mapping) IN
    IF check_dealership_override(t) # NoMatch THEN 0
    ELSE IF FirstIndex(ps, LAMBDA q : q.alias = t) # 0 THEN 0
    ELSE Len(ps)

\* FeatureMappingModule.mapping_dict: the flat dictionary alias -> checkbox
\* of the same catalog; a key met again keeps its place and takes the value
RECURSIVE FlatDict(_)
FlatDict(ps) ==
    IF ps = <<>> THEN <<>>
    ELSE LET init == FlatDict(SubSeq(ps, 1, Len(ps) - 1))
             last == ps[Len(ps)]
             j == FirstIndex(init, LAMBDA q : q.alias = last.alias)
         IN IF j = 0 THEN Append(init, last)
            ELSE [init EXCEPT ![j] = last]

mapping_dict == FlatDict(Pairs(feature_mapping))

\* FeatureMappingModule.map_feature: nothing for an empty text, then the
\* override, then the exact match of the normalized texts, then the fuzzy
\* pass with calculate_similarity
map_feature(t) ==
    LET override == check_dealership_override(t)
        n == normalize_text(t)
        exact == FirstIndex(mapping_dict,
                            LAMBDA q : normalize_text(q.alias) = n)
        boost == get_category_boost(t)
        best == BestOf(mapping_dict,
                       LAMBDA alias :
                          Min(One, calculate_similarity(alias, n) + boost),
                       NoMatch)
    IN IF t = <<>> THEN NoMatch
       ELSE IF override # NoMatch THEN override
       ELSE IF exact # 0
       THEN [label |-> mapping_dict[exact].label, conf |-> One,
             source |-> "exact"]
       ELSE IF best # NoMatch /\ MeetsThreshold(best.conf) THEN best
       ELSE NoMatch

\* the labels the features of a list are mapped to
MappedLabels(feats) ==
    {map_single_feature(feats[j]).label : j \in 1..Len(feats)}
        \ {NoMatch.label}

\* map_features with an entry False for every label that was not resolved
map_features_with_false(feats) ==
    [l \in MappedLabels(feats)
           \cup {feature_mapping[j].label : j \in 1..Len(feature_mapping)} |->
        l \in MappedLabels(feats)]

\* FeatureMapper.map_features: the dictionary with the entry True for every
\* label a feature of the list was mapped to
map_features(feats) == [l \in MappedLabels(feats) |-> TRUE]

\* the aliases of the catalogs tried
AliasPool == {<<"a", "b">>, <<"A", "-", "b">>, <<"b">>}
AliasLists == {<<x>> : x \in AliasPool} \cup {<<<<"a", "b">>, <<"b", "a">>>>}

\* the catalogs tried: none, one or two labels with their aliases
Catalogs ==
    {<<>>}
    \cup {<<[label |-> "L1", aliases |-> x]>> : x \in AliasLists}
    \cup {<<[label |-> "L1", aliases |-> x], [label |-> "L2", aliases |-> y]>> :
             x \in {<<<<"b">>>>, <<<<"a", "b">>, <<"b", "a">>>>},
             y \in AliasLists}

\* the override tables tried; L3 is a checkbox only overrides name
OverrideTables ==
    {<<>>,
     <<[pattern |-> <<"a">>, checkbox |-> "L3"]>>,
     <<[pattern |-> <<"A">>, checkbox |-> "L3"],
       [pattern |-> <<"b">>, checkbox |-> "L2"]>>,
     <<[pattern |-> <<"a", "-", "b">>, checkbox |-> "L3"]>>,
     <<[pattern |-> <<"a", "-">>, checkbox |-> "L3"],
       [pattern |-> <<"b">>, checkbox |-> "L2"]>>,
     <<[pattern |-> <<>>, checkbox |-> "L3"]>>}

\* the thresholds tried: 0, 0.5 and the 90 of a 0..100 scale
Thresholds == {0, One \div 2, 90 * One}

\* the category tables tried: none, and a table of two categories with the
\* boosts 0.5 and 0.1
BoostTables ==
    {<<>>,
     <<[name |-> <<"A">>, boost |-> One \div 2],
       [name |-> <<"B">>, boost |-> One \div 10]>>}

\* the lists of features handed to map_features
FeatureLists ==
    UNION {[1..n -> {<<"a", "b">>, <<"A", " ", "b">>, <<"b">>, <<"-">>,
                     <<"a">>, <<>>}] : n \in 0..MaxBatch}

\* the mapper is constructed from its configuration
InitMap ==
    /\ feature_mapping \in Catalogs
    /\ dealership_overrides \in OverrideTables
    /\ confidence_threshold \in Thresholds
    /\ category_boosts \in BoostTables
    /\ m_op = "none"
    /\ m_input = <<>>
    /\ m_result = NoMatch

\* a mapper with an empty configuration that is never called
InitMapIdle ==
    /\ feature_mapping = <<>>
    /\ dealership_overrides = <<>>
    /\ confidence_threshold = One
    /\ category_boosts = <<>>
    /\ m_op = "none"
    /\ m_input = <<>>
    /\ m_result = NoMatch

\* a call of FeatureMappingModule.map_feature
MapFeature ==
    /\ m_op = "none"
    /\ \E t \in Texts :
         /\ m_input' = t
         /\ m_result' = map_feature(t)
    /\ m_op' = "map_feature"
    /\ UNCHANGED <<engineVars, eaVars, wfVars, feature_mapping,
                   dealership_overrides, confidence_threshold, category_boosts,
                   otherVars>>

\* a call of FeatureMapper._map_single_feature
MapSingleFeature ==
    /\ m_op = "none"
    /\ \E t \in Texts :
         /\ m_input' = t
         /\ m_result' = map_single_feature(t)
    /\ m_op' = "map_single_feature"
    /\ UNCHANGED <<engineVars, eaVars, wfVars, feature_mapping,
                   dealership_overrides, confidence_threshold, category_boosts,
                   otherVars>>

\* a call of FeatureMapper.map_features
MapFeatures ==
    /\ m_op = "none"
    /\ \E feats \in FeatureLists :
         /\ m_input' = feats
         /\ m_result' = map_features(feats)
    /\ m_op' = "map_features"
    /\ UNCHANGED <<engineVars, eaVars, wfVars, feature_mapping,
                   dealership_overrides, confidence_threshold, category_boosts,
                   otherVars>>

\* ----------------------------------------------------------- MappingLearner

\* the feature texts and the labels of the corrections tried
LearnTexts == {<<"a", "b">>, <<"b">>}
LearnLabels == {"L1", "L2"}

\* the catalogs the learner starts from
LearnCatalogs ==
    {<<>>,
     <<[label |-> "L1", aliases |-> <<<<"a", "b">>>>]>>,
     <<[label |-> "L1", aliases |-> <<<<"a", "b">>>>],
       [label |-> "L2", aliases |-> <<<<"b">>>>]>>}

\* the FeatureMapper has neither add_mapping nor update_mapping: looking
\* either up raises AttributeError; a catalog with the two operations may
\* raise in the mutation number failAt of a call
MutationRaises(n, failAt) == mapper_kind = "FeatureMapper" \/ n = failAt

\* the records of the text t in self.corrections: the labels the text was
\* corrected to, oldest first ('old' and 'timestamp' are never read)
EntryOf(corr, t) == FirstIndex(corr, LAMBDA e : e.text = t)

\* the new record is put in front of the history of its text
append_correction_in_front(corr, t, new) ==
    LET j == EntryOf(corr, t) IN
    IF j = 0 THEN Append(corr, [text |-> t, news |-> <<new>>])
    ELSE [corr EXCEPT ![j].news = <<new>> \o @]

\* self.corrections[feature_text].append(...), with a new list for a new text
append_correction(corr, t, new) ==
    LET j == EntryOf(corr, t) IN
    IF j = 0 THEN Append(corr, [text |-> t, news |-> <<new>>])
    ELSE [corr EXCEPT ![j].news = Append(@, new)]

\* add_mapping(feature_text, label) of a catalog: the text becomes an alias of
\* the label, which is created when missing; nothing changes when it already
\* is one
add_mapping(cat, t, label) ==
    LET j == FirstIndex(cat, LAMBDA e : e.label = label) IN
    IF j = 0 THEN Append(cat, [label |-> label, aliases |-> <<t>>])
    ELSE IF \E h \in 1..Len(cat[j].aliases) : cat[j].aliases[h] = t THEN cat
    ELSE [cat EXCEPT ![j].aliases = Append(@, t)]

\* update_mapping(old_text, new_text, label) of a catalog: the old text stops
\* being an alias of any label and the new text becomes an alias of the label
update_mapping(cat, old, new, label) ==
    add_mapping([j \in 1..Len(cat) |->
                    [cat[j] EXCEPT !.aliases =
                        SelectSeq(@, LAMBDA a : a # old)]],
                new, label)

\* mapping_counts.get(new_mapping, 0) after the loop over the records
CountOf(news, l) == Cardinality({j \in 1..Len(news) : news[j] = l})

\* max(mapping_counts.items(), key=count): the label with the greatest count,
\* the one met first among those
most_common(news) ==
    LET first(l) == CHOOSE j \in 1..Len(news) :
                       news[j] = l /\ \A h \in 1..(j - 1) : news[h] # l
        ls == {news[j] : j \in 1..Len(news)}
    IN CHOOSE l \in ls :
          \A k \in ls :
             \/ CountOf(news, l) > CountOf(news, k)
             \/ CountOf(news, l) = CountOf(news, k) /\ first(l) <= first(k)

\* a text is suggested from two records on
Qualifies_two(news) ==
    /\ Len(news) >= 2
    /\ 4 * CountOf(news, most_common(news)) >= 3 * Len(news)

\* len(corrections) >= 3 and count / len(corrections) >= 0.75
Qualifies(news) ==
    /\ Len(news) >= 3
    /\ 4 * CountOf(news, most_common(news)) >= 3 * Len(news)

\* suggest_improvements: the dictionary text -> most common label of the
\* texts that qualify, in the order of self.corrections
RECURSIVE suggest_improvements(_)
suggest_improvements(corr) ==
    IF corr = <<>> THEN <<>>
    ELSE (IF Qualifies(corr[1].news)
          THEN <<[text |-> corr[1].text, label |-> most_common(corr[1].news)]>>
          ELSE <<>>)
         \o suggest_improvements(Tail(corr))

\* current_mapping of apply_suggestions: the first label of the catalog that
\* has the text among its aliases, or None
current_mapping(cat, t) ==
    LET j == FirstIndex(cat,
                LAMBDA e : \E h \in 1..Len(e.aliases) : e.aliases[h] = t)
    IN IF j = 0 THEN "None" ELSE cat[j].label

\* no suggestion is taken for applied
AlreadyMapped_never(current, suggested) == FALSE

\* if current_mapping == suggested_mapping: continue
AlreadyMapped(current, suggested) == current = suggested

\* the except clause of apply_suggestions: return 0
except_return(count) == 0

\* the loop of apply_suggestions over the suggestions sugs from the catalog
\* cat with count mutations done: the catalog, the value returned and the
\* number of mutations performed
RECURSIVE apply_loop(_, _, _, _)
apply_loop(sugs, cat, count, failAt) ==
    IF sugs = <<>>
    THEN [cat |-> cat, returned |-> count, mutations |-> count,
          raised |-> FALSE]
    ELSE LET t == sugs[1].text
             suggested == sugs[1].label
             current == current_mapping(cat, t)
         IN IF AlreadyMapped(current, suggested)
            THEN apply_loop(Tail(sugs), cat, count, failAt)
            ELSE IF MutationRaises(count + 1, failAt)
            THEN [cat |-> cat, returned |-> except_return(count),
                  mutations |-> count, raised |-> TRUE]
            ELSE apply_loop(Tail(sugs),
                            IF current # "None"
                            THEN update_mapping(cat, t, t, suggested)
                            ELSE add_mapping(cat, t, suggested),
                            count + 1, failAt)

\* the corrections files a learner may find: none, or one with three records
\* of one text
LoadedCorrections ==
    {<<>>, <<[text |-> <<"a", "b">>, news |-> <<"L2", "L2", "L2">>]>>}

\* the outcome of the save is not looked at
record_result_ignored(saved) == TRUE

\* saved = self._save_corrections(); return saved: _save_corrections gives
\* False when writing the file raised
record_result(saved) == saved

\* record_correction(feature_text, old_mapping, new_mapping): the record is
\* appended, then add_mapping is called and the corrections are saved; any
\* exception ends the call with False
RecordCorrection ==
    /\ l_calls < MaxCorrections
    /\ l_calls' = l_calls + 1
    /\ \E t \in LearnTexts, new \in LearnLabels,
          failAt \in {0, 1}, saved \in BOOLEAN :
         /\ corrections' = append_correction(corrections, t, new)
         /\ l_arg' = [text |-> t, new |-> new]
         /\ IF MutationRaises(1, failAt)
            THEN /\ l_result' = FALSE
                 /\ l_mutations' = 0
                 /\ UNCHANGED <<feature_mapping, corrections_doc>>
            ELSE /\ feature_mapping' = add_mapping(feature_mapping, t, new)
                 /\ l_mutations' = 1
                 /\ l_result' = record_result(saved)
                 /\ corrections_doc' =
                       IF saved THEN corrections' ELSE corrections_doc
    /\ l_op' = "record_correction"
    /\ UNCHANGED <<engineVars, eaVars, wfVars, dealership_overrides,
                   confidence_threshold, category_boosts, m_op, m_input,
                   m_result, mapper_kind, eb, fileVars, laterVars>>

\* a call of suggest_improvements
SuggestImprovements ==
    /\ l_op' = "suggest_improvements"
    /\ l_result' = suggest_improvements(corrections)
    /\ l_mutations' = 0
    /\ UNCHANGED <<engineVars, eaVars, wfVars, feature_mapping,
                   dealership_overrides, confidence_threshold, category_boosts,
                   m_op, m_input, m_result, mapper_kind, corrections,
                   corrections_doc, l_arg, l_calls, eb, fileVars, laterVars>>

\* a call of apply_suggestions
ApplySuggestions ==
    /\ \E failAt \in 0..Cardinality(LearnTexts) :
         LET r == apply_loop(suggest_improvements(corrections),
                             feature_mapping, 0, failAt)
         IN /\ feature_mapping' = r.cat
            /\ l_result' = r.returned
            /\ l_mutations' = r.mutations
            /\ l_raised' = r.raised
    /\ l_op' = "apply_suggestions"
    /\ UNCHANGED <<engineVars, eaVars, wfVars, dealership_overrides,
                   confidence_threshold, category_boosts, m_op, m_input,
                   m_result, mapper_kind, corrections, corrections_doc, l_arg,
                   l_calls, eb, fileVars, schedVars, loadVars, pageVars,
                   textVars, simVars, wf_discovered, authVars>>

\* a learner that is never used
InitLearnIdle ==
    /\ mapper_kind = "FeatureMapper"
    /\ corrections = <<>>
    /\ corrections_doc = <<>>
    /\ l_op = "none"
    /\ l_arg = [text |-> <<>>, new |-> "None"]
    /\ l_result = 0
    /\ l_mutations = 0
    /\ l_calls = 0

\* the learner is constructed over a mapper and loads its corrections file
InitLearn(kind) ==
    /\ mapper_kind = kind
    /\ corrections_doc \in LoadedCorrections
    /\ corrections = corrections_doc
    /\ l_calls = 0
    /\ l_op = "none"
    /\ l_arg = [text |-> <<>>, new |-> "None"]
    /\ l_result = 0
    /\ l_mutations = 0

\* the mapper of a learner
InitLearnMap ==
    /\ feature_mapping \in LearnCatalogs
    /\ dealership_overrides \in {<<>>, <<[pattern |-> <<"b">>,
                                         checkbox |-> "L3"]>>}
    /\ confidence_threshold = One
    /\ category_boosts = <<>>
    /\ m_op = "none"
    /\ m_input = <<>>
    /\ m_result = NoMatch

\* ------------------------------------------------------ the mapping file

\* the runs that share the file
Runs == {1, 2}

\* the k-th of the n chunks json.dump of writer w hands to the file
Chunk(w, k, n) == <<w, k, n>>

\* the bytes of a hole, left by a write beyond the end of the file
Hole == <<0, 0, 0>>

\* the complete document of writer w, in n chunks
Document(w, n) == [k \in 1..n |-> Chunk(w, k, n)]

\* json.load accepts the content: it is one complete document; writer 0 wrote
\* the file the runs find
IsDocument(c) ==
    \E w \in {0} \cup Runs, n \in 1..MaxChunks : c = Document(w, n)

\* a write of the chunk ch at offset off of the file content f
WriteAt(f, off, ch) ==
    [j \in 1..(IF Len(f) > off THEN Len(f) ELSE off + 1) |->
        IF j = off + 1 THEN ch ELSE IF j <= Len(f) THEN f[j] ELSE Hole]

\* the run is not inside a save
Resting(r) == f_pc[r] \in {"idle", "saved", "loaded"}

\* open(self.mapping_file, 'w'): the file is truncated at once and the file
\* object of the run starts at offset 0
OpenForWrite(r) ==
    /\ Resting(r)
    /\ file' = <<>>
    /\ \E n \in 1..MaxChunks : f_doc' = [f_doc EXCEPT ![r] = Document(r, n)]
    /\ f_off' = [f_off EXCEPT ![r] = 0]
    /\ f_pc' = [f_pc EXCEPT ![r] = "writing"]
    /\ UNCHANGED f_seen

\* json.dump: the next chunk goes to the file at the offset of the run's
\* file object; after the last one the with block closes the file
WriteChunk(r) ==
    /\ f_pc[r] = "writing"
    /\ file' = WriteAt(file, f_off[r], f_doc[r][f_off[r] + 1])
    /\ f_off' = [f_off EXCEPT ![r] = @ + 1]
    /\ f_pc' = [f_pc EXCEPT ![r] =
                   IF f_off[r] + 1 = Len(f_doc[r]) THEN "saved" ELSE "writing"]
    /\ UNCHANGED <<f_doc, f_seen>>

\* _load_mapping: open(self.mapping_file, 'r') and json.load read what the
\* file holds at that moment
LoadFile(r) ==
    /\ Resting(r)
    /\ f_seen' = [f_seen EXCEPT ![r] = file]
    /\ f_pc' = [f_pc EXCEPT ![r] = "loaded"]
    /\ UNCHANGED <<file, f_doc, f_off>>

\* a step of _save_mapping of some run
SaveStep ==
    /\ \E r \in Runs : OpenForWrite(r) \/ WriteChunk(r)
    /\ UNCHANGED <<engineVars, eaVars, wfVars, feature_mapping,
                   dealership_overrides, confidence_threshold, category_boosts,
                   m_op, m_input, m_result, learnVars, eb, laterVars>>

\* a call of _load_mapping of some run
LoadStep ==
    /\ \E r \in Runs : LoadFile(r)
    /\ UNCHANGED <<engineVars, eaVars, wfVars, feature_mapping,
                   dealership_overrides, confidence_threshold, category_boosts,
                   m_op, m_input, m_result, learnVars, eb, laterVars>>

\* the file holds the document of an earlier save and no run has touched it
InitFiles ==
    /\ file = Document(0, 1)
    /\ f_pc = [r \in Runs |-> "idle"]
    /\ f_doc = [r \in Runs |-> Document(0, 1)]
    /\ f_off = [r \in Runs |-> 0]
    /\ f_seen = [r \in Runs |-> Document(0, 1)]

\* ------------------------------------------------- the scheduled jobs
\* main builds one NovaActEngine and one workflow object and hands the bound
\* method of that one object to the scheduler once per dealership; the jobs
\* are coroutines on one event loop and give way to one another wherever the
\* engine awaits asyncio.to_thread or a module sleeps: between the phases
\* of run_workflow and between two vehicles (workflow.py, line 230)

\* the six counters of a statistics dictionary
Counters(stats) == [k \in CounterKeys |-> stats[k]]

\* no statistics returned yet
NoStats == [k \in {"none"} |-> 0]

\* what no step of a job touches
schedRest == <<eaVars, max_vehicles_per_batch, wf_pc, wf_error, vehicle_urls,
               vi, events, outcomes, runs, mapOwn, learnVars, eb, fileVars,
               loadVars, moreVars>>

\* the job is between _reset_stats and the finally clause
Running(r) == s_pc[r] \in {"authenticate", "discover", "vehicles"}

\* a job r enters run_workflow: start_time and self._reset_stats()
SchedStart ==
    /\ \E r \in Runs :
         /\ s_pc[r] = "idle"
         /\ processing_stats' = reset_stats(now)
         /\ s_own' = [s_own EXCEPT ![r] = reset_stats(now)]
         /\ s_pc' = [s_pc EXCEPT ![r] = "authenticate"]
         /\ UNCHANGED <<engineVars, s_todo, s_ret, s_session>>
    /\ UNCHANGED schedRest

\* await self._authenticate(dealer_config) of a job r; an exception goes
\* to the except clause of run_workflow, which records it
SchedAuthenticate ==
    /\ \E r \in Runs :
         /\ s_pc[r] = "authenticate"
         /\ \E res \in authenticate(Eng, now) :
              /\ SetEngine(res.eng)
              /\ s_session' = [s_session EXCEPT ![r] = res.eng.browser]
              /\ s_pc' = [s_pc EXCEPT ![r] =
                             IF AfterAuth(res.raised) = "except" THEN "finally"
                             ELSE "discover"]
              /\ processing_stats' =
                    IF AfterAuth(res.raised) = "except"
                    THEN failure_stats(processing_stats, "authentication")
                    ELSE processing_stats
         /\ UNCHANGED <<s_todo, s_own, s_ret>>
    /\ UNCHANGED schedRest

\* _discover_inventory and _process_vehicles up to the for loop of a job
\* r: the vehicles to process, or an exception recorded by the except clause
SchedDiscover ==
    /\ \E r \in Runs :
         /\ s_pc[r] = "discover"
         /\ \/ /\ s_pc' = [s_pc EXCEPT ![r] = "finally"]
               /\ processing_stats' = failure_stats(processing_stats, "discovery")
               /\ UNCHANGED s_todo
            \/ \E n \in 0..MaxVehicles :
               /\ s_todo' = [s_todo EXCEPT ![r] =
                                Len(ApplyLimit(Discovered(n),
                                               max_vehicles_per_batch))]
               /\ s_pc' = [s_pc EXCEPT ![r] = "vehicles"]
               /\ UNCHANGED processing_stats
         /\ UNCHANGED <<engineVars, s_own, s_ret, s_session>>
    /\ UNCHANGED schedRest

\* one iteration of the for loop of a job r, as WfVehicle; the counters of
\* the job's own vehicles are kept beside the dictionary of the module
SchedVehicle ==
    /\ \E r \in Runs :
         /\ s_pc[r] = "vehicles"
         /\ s_todo[r] > 0
         /\ \E probe \in BOOLEAN :
              LET valid == is_session_valid(browser, session_start_time, now,
                                            probe)
              IN \E res \in (IF valid THEN {[eng |-> Eng, raised |-> FALSE]}
                             ELSE authenticate(Eng, now)) :
                 \E in \in (IF res.raised THEN {ReauthRaised} ELSE VehicleInputs) :
                   /\ SetEngine(res.eng)
                   /\ processing_stats' = vehicle_stats(processing_stats, in)
                   /\ s_own' = [s_own EXCEPT ![r] = vehicle_stats(@, in)]
                   /\ s_session' = [s_session EXCEPT ![r] =
                                       IF valid THEN @ ELSE res.eng.browser]
         /\ s_todo' = [s_todo EXCEPT ![r] = @ - 1]
         /\ UNCHANGED <<s_pc, s_ret>>
    /\ UNCHANGED schedRest

\* the end of run_workflow of a job r: the processing time when the loop
\* is over, then the finally clause closes the browser of the engine and the
\* call returns self.processing_stats
SchedFinally ==
    /\ \E r \in Runs :
         /\ \/ s_pc[r] = "finally"
            \/ s_pc[r] = "vehicles" /\ s_todo[r] = 0
         /\ LET stats == IF s_pc[r] = "finally" THEN processing_stats
                         ELSE SetKey(processing_stats, "processing_time_minutes",
                                     now - processing_stats["start_time"])
            IN /\ processing_stats' = stats
               /\ s_ret' = [s_ret EXCEPT ![r] = stats]
         /\ \E quitOk \in BOOLEAN :
              /\ (browser = NoBrowser => quitOk)
              /\ SetEngine(close_browser(Eng, quitOk))
         /\ s_pc' = [s_pc EXCEPT ![r] = "returned"]
         /\ UNCHANGED <<s_todo, s_own, s_session>>
    /\ UNCHANGED schedRest

\* no job has been started
InitSched ==
    /\ s_pc = [r \in Runs |-> "idle"]
    /\ s_todo = [r \in Runs |-> 0]
    /\ s_own = [r \in Runs |-> [k \in CounterKeys |-> 0]]
    /\ s_ret = [r \in Runs |-> NoStats]
    /\ s_session = [r \in Runs |-> NoBrowser]

\* ------------------------------------------------ loading the catalog

\* what a file of the configuration can be: not configured, missing,
\* unreadable, bytes that are no text in the encoding of open(), text that is
\* no JSON, the JSON value null, or a JSON object
StoreKinds == {"unset", "missing", "unreadable", "not_text", "not_json",
               "json_null", "ok"}

\* the exception of open(file, 'r') and json.load(f) on a file of that kind
ReadError(kind) ==
    CASE kind = "missing" -> "FileNotFoundError"
      [] kind = "unreadable" -> "PermissionError"
      [] kind = "not_text" -> "UnicodeDecodeError"
      [] kind = "not_json" -> "JSONDecodeError"
      [] OTHER -> NoError

\* the exception of the try block of a load: that of reading the file, or
\* onNull, the one of len(mappings) (TypeError) or of all_overrides.get
\* (AttributeError) on the value null
LoadError(kind, onNull) ==
    IF kind = "json_null" THEN onNull ELSE ReadError(kind)

\* except (IOError, json.JSONDecodeError) of FeatureMappingModule
CaughtByModule(e) ==
    e \in {"FileNotFoundError", "PermissionError", "JSONDecodeError"}

\* FeatureMapper._load_mapping and _load_dealership_overrides: except
\* Exception gives the empty dictionary; the mapping file is always read
mapper_load(store) ==
    IF store.kind = "ok" THEN store.doc ELSE <<>>

\* FeatureMappingModule._load_feature_mappings and _load_dealership_overrides:
\* the document, the empty dictionary, or the exception that is not caught
module_load(store, onNull) ==
    IF store.kind = "unset" THEN [raised |-> NoError, doc |-> <<>>]
    ELSE IF store.kind = "ok" THEN [raised |-> NoError, doc |-> store.doc]
    ELSE IF CaughtByModule(LoadError(store.kind, onNull))
    THEN [raised |-> NoError, doc |-> <<>>]
    ELSE [raised |-> LoadError(store.kind, onNull), doc |-> <<>>]

\* FeatureMapper(config): the overrides are loaded, then the mapping
ConstructMapper ==
    /\ ld_op = "none"
    /\ mapping_store.kind # "unset"
    /\ ld_op' = "FeatureMapper"
    /\ dealership_overrides' = mapper_load(override_store)
    /\ feature_mapping' = mapper_load(mapping_store)
    /\ ld_raised' = NoError
    /\ UNCHANGED <<engineVars, eaVars, wfVars, confidence_threshold,
                   category_boosts, m_op, m_input, m_result, learnVars, eb,
                   fileVars, schedVars, mapping_store, override_store,
                   moreVars>>

\* FeatureMappingModule(config): the mapping is loaded, then the overrides;
\* an exception of either load ends the construction
ConstructModule ==
    /\ ld_op = "none"
    /\ ld_op' = "FeatureMappingModule"
    /\ LET m == module_load(mapping_store, "TypeError")
           o == module_load(override_store, "AttributeError")
       IN /\ ld_raised' = IF m.raised # NoError THEN m.raised ELSE o.raised
          /\ feature_mapping' = m.doc
          /\ dealership_overrides' =
                IF m.raised # NoError THEN <<>> ELSE o.doc
    /\ UNCHANGED <<engineVars, eaVars, wfVars, confidence_threshold,
                   category_boosts, m_op, m_input, m_result, learnVars, eb,
                   fileVars, schedVars, mapping_store, override_store,
                   moreVars>>

\* the files a constructor may find
MappingStores ==
    [kind : StoreKinds \ {"ok"}, doc : {<<>>}]
    \cup [kind : {"ok"}, doc : Catalogs]

OverrideStores ==
    [kind : StoreKinds \ {"ok"}, doc : {<<>>}]
    \cup [kind : {"ok"}, doc : OverrideTables]

\* no mapper has been constructed
InitLoad ==
    /\ mapping_store \in MappingStores
    /\ override_store \in OverrideStores
    /\ ld_op = "none"
    /\ ld_raised = NoError

\* no file is looked at
InitLoadIdle ==
    /\ mapping_store = [kind |-> "unset", doc |-> <<>>]
    /\ override_store = [kind |-> "unset", doc |-> <<>>]
    /\ ld_op = "none"
    /\ ld_raised = NoError

\* ---------------------------------------------------------- checkbox steps

\* the texts next to the checkboxes of a page
BoxLabels == {<<"a">>, <<"a", "b">>, <<"b">>}

\* the pages: up to MaxBoxes checkboxes in document order
Pages ==
    UNION {[1..n -> [label : BoxLabels, checked : BOOLEAN]] : n \in 0..MaxBoxes}

\* the dictionaries label -> bool with up to MaxBoxes keys
Mappings ==
    {m \in UNION {[1..n -> [label : BoxLabels, value : BOOLEAN]] :
                    n \in 0..MaxBoxes} :
        \A j, h \in 1..Len(m) : j # h => m[j].label # m[h].label}

\* the lists of up to MaxBoxes names
NameLists == UNION {[1..n -> BoxLabels] : n \in 0..MaxBoxes}

\* the four container selectors of _set_checkboxes all ask for a checkbox
\* div with a label or span whose text contains the feature label; the first
\* element of the first selector with a result is the container (0: none)
find_container(page, label) ==
    FirstIndex(page, LAMBDA b : Contains(label, b.label))

\* the search ignores its third argument and returns the first checkbox
\* input of the document
find_element_first_of_page(page, container) == [raised |-> FALSE, box |-> 1]

\* find_element(By.XPATH, ".//input[@type='checkbox']", container): the third
\* parameter of find_element is the timeout, so the container element is
\* handed to WebDriverWait as a number of seconds, which raises TypeError;
\* find_element catches TimeoutException only
find_element(page, container) == [raised |-> TRUE, box |-> 0]

\* the for loop of _set_checkboxes over the items of mapped_features, with
\* the page, the list updated_features so far and what a click does
RECURSIVE set_checkboxes(_, _, _, _)
set_checkboxes(page, items, updated, click) ==
    IF items = <<>> THEN [page |-> page, updated |-> updated]
    ELSE
      LET feature_label == items[1].label
          should_be_checked == items[1].value
          container == find_container(page, feature_label)
          checkbox == find_element(page, container)
      IN IF container = 0 \/ checkbox.raised
         THEN set_checkboxes(page, Tail(items), updated, click)
         ELSE IF page[checkbox.box].checked = should_be_checked
         THEN set_checkboxes(page, Tail(items), updated, click)
         ELSE IF click = "raised"
         THEN set_checkboxes(page, Tail(items), updated, click)
         ELSE
           LET clicked == IF click = "toggled"
                          THEN [page EXCEPT ![checkbox.box].checked = ~@]
                          ELSE page
           IN set_checkboxes(clicked, Tail(items),
                 IF clicked[checkbox.box].checked = should_be_checked
                 THEN Append(updated, [feature |-> feature_label,
                                       new_state |-> should_be_checked])
                 ELSE updated,
                 click)

\* what no checkbox step touches
pageRest == <<engineVars, eaVars, wfVars, mapOwn, learnVars, eb, fileVars,
              schedVars, loadVars, textVars, lastVars>>

\* _set_checkboxes(mapped_features, current_states) of src/modules/inventory
SetCheckboxes ==
    /\ cb_op = "none"
    /\ cb_page # <<>>
    /\ \E click \in {"toggled", "unchanged", "raised"} :
         LET r == set_checkboxes(cb_page, cb_mapping, <<>>, click)
         IN /\ cb_page' = r.page
            /\ cb_result' = r.updated
    /\ cb_op' = "set_checkboxes"
    /\ UNCHANGED <<cb_before, cb_mapping, cb_to_check, pageRest>>

\* get_all_checkboxes of the draft module: the dictionary name -> element in
\* the order the names first appear; a name that appears again replaces the
\* element
RECURSIVE get_all_checkboxes(_, _, _)
get_all_checkboxes(page, j, dict) ==
    IF j > Len(page) THEN dict
    ELSE LET k == FirstIndex(dict, LAMBDA e : e.name = page[j].label)
         IN get_all_checkboxes(page, j + 1,
               IF k = 0 THEN Append(dict, [name |-> page[j].label, box |-> j])
               ELSE [dict EXCEPT ![k].box = j])

\* name in checkboxes_to_check
InList(name, list) == \E j \in 1..Len(list) : list[j] = name

\* update_checkboxes of the draft module: every checkbox of the dictionary
\* whose state is not 'name in checkboxes_to_check' is set to it by script;
\* a script that raises counts as an error
RECURSIVE update_checkboxes(_, _, _, _, _, _)
update_checkboxes(page, dict, to_check, script, updates, errors) ==
    IF dict = <<>>
    THEN [page |-> page, updates_count |-> updates, errors_count |-> errors]
    ELSE
      LET should_be_checked == InList(dict[1].name, to_check)
          box == dict[1].box
      IN IF page[box].checked = should_be_checked
         THEN update_checkboxes(page, Tail(dict), to_check, script,
                                updates, errors)
         ELSE IF script = "raised"
         THEN update_checkboxes(page, Tail(dict), to_check, script,
                                updates, errors + 1)
         ELSE update_checkboxes(
                 [page EXCEPT ![box].checked = should_be_checked],
                 Tail(dict), to_check, script, updates + 1, errors)

\* verify_checkboxes: the names whose state is not 'name in
\* checkboxes_to_check', in the order of the dictionary
RECURSIVE verify_checkboxes(_, _, _)
verify_checkboxes(page, dict, to_check) ==
    IF dict = <<>> THEN <<>>
    ELSE (IF page[dict[1].box].checked = InList(dict[1].name, to_check)
          THEN <<>> ELSE <<dict[1].name>>)
         \o verify_checkboxes(page, Tail(dict), to_check)

\* the results dictionary of manage_vehicle_checkboxes
Results(success, upd, err, dict, error_list) ==
    [success |-> success, updates_count |-> upd, errors_count |-> err,
     verification_success |-> Len(dict) - Len(error_list),
     verification_errors |-> Len(error_list),
     error_checkboxes |-> error_list]

\* manage_vehicle_checkboxes(vehicle_url, checkboxes_to_check) of the draft
\* module: navigate, collect the checkboxes, update, save, refresh, verify
ManageVehicleCheckboxes ==
    /\ cb_op = "none"
    /\ \E navigated \in BOOLEAN, saved \in BOOLEAN,
          script \in {"set", "raised"} :
         LET dict == get_all_checkboxes(cb_page, 1, <<>>)
             r == update_checkboxes(cb_page, dict, cb_to_check, script, 0, 0)
             error_list == verify_checkboxes(r.page, dict, cb_to_check)
         IN IF ~navigated \/ dict = <<>>
            THEN /\ cb_result' = Results(FALSE, 0, 0, <<>>, <<>>)
                 /\ UNCHANGED cb_page
            ELSE IF ~saved
            THEN /\ cb_result' = Results(FALSE, r.updates_count,
                                         r.errors_count, <<>>, <<>>)
                 /\ cb_page' = r.page
            ELSE /\ cb_result' =
                       Results(r.errors_count = 0 /\ error_list = <<>>,
                               r.updates_count, r.errors_count, dict,
                               error_list)
                 /\ cb_page' = r.page
    /\ cb_op' = "manage_vehicle_checkboxes"
    /\ UNCHANGED <<cb_before, cb_mapping, cb_to_check, pageRest>>

\* a page, a mapping and a list of names, before any step
InitPage ==
    /\ cb_page \in Pages
    /\ cb_before = cb_page
    /\ cb_mapping \in Mappings
    /\ cb_to_check \in NameLists
    /\ cb_op = "none"
    /\ cb_result = <<>>

\* no page is looked at
InitPageIdle ==
    /\ cb_page = <<>>
    /\ cb_before = <<>>
    /\ cb_mapping = <<>>
    /\ cb_to_check = <<>>
    /\ cb_op = "none"
    /\ cb_result = <<>>

\* ------------------------------------------------------------ normalization

\* the characters of a text to normalize: a letter in both cases, a digit,
\* two punctuation marks, the blank and the tab
NormChars == {"a", "A", "1", "-", "_", " ", "\t"}

\* the texts of up to MaxText characters
NormTexts == UNION {[1..n -> NormChars] : n \in 0..MaxText}

IsLetter(c) == c \in {"a", "A"}
IsPunct(c) == c \in {"-", "_"}

\* the letter in the other case
SwapCase(c) == IF c = "a" THEN "A" ELSE "a"

\* normalize_text(text) for a text that may be None: 'if not text: return ""'
normalize_input(missing, t) == IF missing THEN <<>> ELSE normalize_text(t)

\* what no step on the texts touches
textRest == <<engineVars, eaVars, wfVars, mapOwn, learnVars, eb, fileVars,
              schedVars, loadVars, pageVars, lastVars, nt_missing, nt_x>>

\* the text t has whitespace at position j
SpaceAt(t, j) == j \in 1..Len(t) /\ IsSpace(t[j])

\* the variant gets a letter in the other case
VaryCase ==
    /\ nt_op = "none" /\ ~nt_missing
    /\ nt_rel \in {"none", "case"}
    /\ \E j \in 1..Len(nt_y) :
         /\ IsLetter(nt_y[j])
         /\ nt_y' = [nt_y EXCEPT ![j] = SwapCase(@)]
    /\ nt_rel' = "case"
    /\ UNCHANGED <<nt_op, nt_nx, nt_ny, nt_nnx, textRest>>

\* the variant gets a punctuation mark where it has whitespace, or
\* whitespace where it has a punctuation mark; the underscore is remembered
VaryPunct ==
    /\ nt_op = "none" /\ ~nt_missing
    /\ nt_rel \in {"none", "punct", "underscore"}
    /\ \E j \in 1..Len(nt_y), c \in NormChars :
         /\ \/ IsPunct(nt_y[j]) /\ IsSpace(c)
            \/ IsSpace(nt_y[j]) /\ IsPunct(c)
         /\ nt_y' = [nt_y EXCEPT ![j] = c]
         /\ nt_rel' = IF nt_rel = "underscore" \/ "_" \in {c, nt_y[j]}
                       THEN "underscore" ELSE "punct"
    /\ UNCHANGED <<nt_op, nt_nx, nt_ny, nt_nnx, textRest>>

\* the variant gets one more whitespace character at its start, at its end
\* or next to whitespace, or loses such a character
VarySpace ==
    /\ nt_op = "none" /\ ~nt_missing
    /\ nt_rel \in {"none", "space"}
    /\ \/ \E j \in 0..Len(nt_y), c \in NormChars :
            /\ Len(nt_y) < MaxText
            /\ IsSpace(c)
            /\ (j = 0 \/ j = Len(nt_y) \/ SpaceAt(nt_y, j)
                \/ SpaceAt(nt_y, j + 1))
            /\ nt_y' = SubSeq(nt_y, 1, j) \o <<c>>
                        \o SubSeq(nt_y, j + 1, Len(nt_y))
       \/ \E j \in 1..Len(nt_y) :
            /\ IsSpace(nt_y[j])
            /\ (j = 1 \/ j = Len(nt_y) \/ SpaceAt(nt_y, j - 1)
                \/ SpaceAt(nt_y, j + 1))
            /\ nt_y' = SubSeq(nt_y, 1, j - 1) \o SubSeq(nt_y, j + 1, Len(nt_y))
    /\ nt_rel' = "space"
    /\ UNCHANGED <<nt_op, nt_nx, nt_ny, nt_nnx, textRest>>

\* normalize_text is applied to the text, to its result and to the variant
Normalize ==
    /\ nt_op = "none"
    /\ nt_nx' = normalize_input(nt_missing, nt_x)
    /\ nt_ny' = normalize_input(nt_missing, nt_y)
    /\ nt_nnx' = normalize_text(nt_nx')
    /\ nt_op' = "normalized"
    /\ UNCHANGED <<nt_y, nt_rel, textRest>>

\* a text, or None, and the variant equal to it
InitText ==
    /\ nt_missing \in BOOLEAN
    /\ nt_x \in (IF nt_missing THEN {<<>>} ELSE NormTexts)
    /\ nt_y = nt_x
    /\ nt_rel = "none"
    /\ nt_op = "none"
    /\ nt_nx = <<>> /\ nt_ny = <<>> /\ nt_nnx = <<>>

\* no text is normalized
InitTextIdle ==
    /\ nt_missing = FALSE
    /\ nt_x = <<>> /\ nt_y = <<>>
    /\ nt_rel = "none"
    /\ nt_op = "none"
    /\ nt_nx = <<>> /\ nt_ny = <<>> /\ nt_nnx = <<>>

\* ---------------------------------------------------- similarity functions

\* the texts scored: up to MaxText characters, already in normal form
SimChars == {"a", "b", "1"}
SimTexts == UNION {[1..n -> SimChars] : n \in 0..MaxText}

\* what no similarity call touches
simRest == <<engineVars, eaVars, wfVars, mapOwn, learnVars, eb, fileVars,
             schedVars, loadVars, pageVars, textVars, wf_discovered,
             l_raised, authVars, sm_a, sm_b>>

\* FeatureMappingModule.calculate_similarity(a, b) and, for comparison, the
\* same call with the arguments exchanged
CalculateSimilarity ==
    /\ sm_op = "none"
    /\ sm_ab' = calculate_similarity(sm_a, sm_b)
    /\ sm_ba' = calculate_similarity(sm_b, sm_a)
    /\ sm_op' = "calculate_similarity"
    /\ UNCHANGED simRest

\* self.similarity_algorithm(a, b) of FeatureMapper, in both orders
SimilarityAlgorithm ==
    /\ sm_op = "none"
    /\ sm_ab' = similarity_algorithm(sm_a, sm_b)
    /\ sm_ba' = similarity_algorithm(sm_b, sm_a)
    /\ sm_op' = "similarity_algorithm"
    /\ UNCHANGED simRest

\* two texts, not yet scored
InitSim ==
    /\ sm_a \in SimTexts
    /\ sm_b \in SimTexts
    /\ sm_op = "none"
    /\ sm_ab = 0 /\ sm_ba = 0

\* no text is scored
InitSimIdle ==
    /\ sm_a = <<>> /\ sm_b = <<>>
    /\ sm_op = "none"
    /\ sm_ab = 0 /\ sm_ba = 0

\* ------------------------------------------- the draft authentication

\* what one login attempt meets: whether the page loads, the two credential
\* fields take their text, the login button is clicked, the error message and
\* the dashboard element appear within their timeouts, and the same for the
\* three steps of the 2FA form
AuthPages ==
    [nav : BOOLEAN, user : BOOLEAN, pass : BOOLEAN, click : BOOLEAN,
     error : BOOLEAN, dashboard : BOOLEAN,
     tfa_field : BOOLEAN, tfa_input : BOOLEAN, tfa_click : BOOLEAN]

\* config: requires_2fa, and whether tfa_function or tfa_static_code gives a
\* code
AuthConfigs == [requires_2fa : BOOLEAN, has_code : BOOLEAN]

\* NovaActEngine.wait_for_element: the element, or None when the wait times
\* out; the TimeoutException is caught here and never leaves the method
wait_for_element(present) ==
    [raised |-> FALSE, value |-> IF present THEN "element" ELSE "None"]

\* NovaActEngine.is_element_present: True unless the call of
\* wait_for_element raises TimeoutException; the value returned is not read
is_element_present(present) ==
    LET r == wait_for_element(present)
    IN  IF r.raised THEN FALSE ELSE TRUE

\* AuthenticationModule.is_login_successful
is_login_successful(page) ==
    IF is_element_present(page.error)
    THEN FALSE
    ELSE is_element_present(page.dashboard)

\* AuthenticationModule.handle_2fa
handle_2fa(page, config) ==
    IF wait_for_element(page.tfa_field).value = "None" THEN FALSE
    ELSE IF ~config.has_code THEN FALSE
    ELSE IF ~page.tfa_input THEN FALSE
    ELSE IF ~page.tfa_click THEN FALSE
    ELSE is_login_successful(page)

\* AuthenticationModule.login: the value returned
login(page, config) ==
    IF ~page.nav THEN FALSE
    ELSE IF ~page.user THEN FALSE
    ELSE IF ~page.pass THEN FALSE
    ELSE IF ~page.click THEN FALSE
    ELSE IF config.requires_2fa /\ ~handle_2fa(page, config) THEN FALSE
    ELSE is_login_successful(page)

\* what no login touches
authRest == <<engineVars, eaVars, wfVars, mapOwn, learnVars, eb, fileVars,
              schedVars, loadVars, pageVars, textVars, simVars,
              wf_discovered, l_raised, au_config>>

\* one call of login() against some page; is_authenticated is set on
\* success and left as it is otherwise
Login ==
    /\ \E page \in AuthPages :
         /\ au_page' = page
         /\ au_result' = login(page, au_config)
         /\ is_authenticated' =
               IF login(page, au_config) THEN TRUE ELSE is_authenticated
    /\ au_op' = "login"
    /\ UNCHANGED authRest

\* a page on which every step succeeds and only the dashboard shows
GoodPage ==
    [nav |-> TRUE, user |-> TRUE, pass |-> TRUE, click |-> TRUE,
     error |-> FALSE, dashboard |-> TRUE,
     tfa_field |-> TRUE, tfa_input |-> TRUE, tfa_click |-> TRUE]

\* a new AuthenticationModule: is_authenticated False, no login yet
InitAuth ==
    /\ au_page = GoodPage
    /\ au_config \in AuthConfigs
    /\ is_authenticated = FALSE
    /\ au_op = "none"
    /\ au_result = FALSE

\* no authentication module
InitAuthIdle ==
    /\ au_page = GoodPage
    /\ au_config = [requires_2fa |-> FALSE, has_code |-> FALSE]
    /\ is_authenticated = FALSE
    /\ au_op = "none"
    /\ au_result = FALSE

\* the last sections at rest
InitLastIdle == InitSimIdle /\ InitAuthIdle

\* the sections after the loading at rest
InitMoreIdle == InitPageIdle /\ InitTextIdle /\ InitLastIdle

\* the later sections at rest
InitLaterIdle == InitSched /\ InitLoadIdle /\ InitMoreIdle

\* no call of ensure_browser, no learner, an untouched file
InitOtherIdle == InitLearnIdle /\ eb = NoCall /\ InitFiles /\ InitLaterIdle

InitMapping ==
    InitEngine /\ InitEa /\ InitWfIdle /\ InitMap /\ InitOtherIdle

NextMapping == MapFeature \/ MapSingleFeature \/ MapFeatures

SpecMapping == InitMapping /\ [][NextMapping]_vars

InitExec ==
    InitEngine /\ InitEa /\ InitWfIdle /\ InitMapIdle /\ InitOtherIdle

NextExec == Tick \/ EaCall \/ EaLoop \/ EaEnsure \/ EaAction \/ EaExcept

SpecExec == InitExec /\ [][NextExec]_vars

InitWorkflow ==
    InitEngine /\ InitEa /\ InitWf /\ InitMapIdle /\ InitOtherIdle

NextWorkflow ==
    \/ Tick \/ WfStart \/ WfAuthenticate \/ WfDiscover \/ WfSetup
    \/ WfVehicle \/ WfComplete \/ WfExcept \/ WfFinally

SpecWorkflow == InitWorkflow /\ [][NextWorkflow]_vars

\* the learner over the FeatureMapper of the source
InitLearner ==
    InitEngine /\ InitEa /\ InitWfIdle /\ InitLearnMap
    /\ InitLearn("FeatureMapper") /\ eb = NoCall /\ InitFiles
    /\ InitLaterIdle

NextLearner == RecordCorrection \/ SuggestImprovements \/ ApplySuggestions

SpecLearner == InitLearner /\ [][NextLearner]_vars

\* the learner over a catalog that has add_mapping and update_mapping
InitLearnerCatalog ==
    InitEngine /\ InitEa /\ InitWfIdle /\ InitLearnMap /\ InitLearn("Catalog")
    /\ eb = NoCall /\ InitFiles /\ InitLaterIdle

SpecLearnerCatalog == InitLearnerCatalog /\ [][NextLearner]_vars

\* the engine and direct calls of ensure_browser, as time passes
NextSessions == Tick \/ EnsureBrowser

SpecSessions == InitExec /\ [][NextSessions]_vars

\* two runs that save and load the same mapping file
NextFiles == SaveStep \/ LoadStep

SpecFiles == InitExec /\ [][NextFiles]_vars

\* the jobs of the scheduler on the one workflow object and the one engine
NextScheduler ==
    \/ SchedStart \/ SchedAuthenticate \/ SchedDiscover \/ SchedVehicle
    \/ SchedFinally

SpecScheduler == InitExec /\ [][NextScheduler]_vars

\* the construction of either mapper from the files it finds
InitLoading ==
    InitEngine /\ InitEa /\ InitWfIdle /\ InitMapIdle /\ InitLearnIdle
    /\ eb = NoCall /\ InitFiles /\ InitSched /\ InitLoad /\ InitMoreIdle

NextLoading == ConstructMapper \/ ConstructModule

SpecLoading == InitLoading /\ [][NextLoading]_vars

\* one checkbox step on a page
InitCheckboxes ==
    InitEngine /\ InitEa /\ InitWfIdle /\ InitMapIdle /\ InitLearnIdle
    /\ eb = NoCall /\ InitFiles /\ InitSched /\ InitLoadIdle /\ InitPage
    /\ InitTextIdle /\ InitLastIdle

NextCheckboxes == SetCheckboxes \/ ManageVehicleCheckboxes

SpecCheckboxes == InitCheckboxes /\ [][NextCheckboxes]_vars

\* normalize_text on a text and on a variant of it
InitNormalize ==
    InitEngine /\ InitEa /\ InitWfIdle /\ InitMapIdle /\ InitLearnIdle
    /\ eb = NoCall /\ InitFiles /\ InitSched /\ InitLoadIdle /\ InitPageIdle
    /\ InitText /\ InitLastIdle

NextNormalize == VaryCase \/ VaryPunct \/ VarySpace \/ Normalize

SpecNormalize == InitNormalize /\ [][NextNormalize]_vars

\* a similarity function on two texts
InitSimilarity ==
    InitEngine /\ InitEa /\ InitWfIdle /\ InitMapIdle /\ InitLearnIdle
    /\ eb = NoCall /\ InitFiles /\ InitSched /\ InitLoadIdle /\ InitPageIdle
    /\ InitTextIdle /\ InitSim /\ InitAuthIdle

NextSimilarity == CalculateSimilarity \/ SimilarityAlgorithm

SpecSimilarity == InitSimilarity /\ [][NextSimilarity]_vars

\* logins of one AuthenticationModule
InitAuthentication ==
    InitEngine /\ InitEa /\ InitWfIdle /\ InitMapIdle /\ InitLearnIdle
    /\ eb = NoCall /\ InitFiles /\ InitSched /\ InitLoadIdle /\ InitPageIdle
    /\ InitTextIdle /\ InitSimIdle /\ InitAuth

NextAuthentication == Login

SpecAuthentication == InitAuthentication /\ [][NextAuthentication]_vars

\* ------------------------------------------------------------------ claims

\* the call of execute_action has returned or raised
EaDone == ea_pc \in {"returned", "raised"}

\* C1 (as stated): with max_retries >= 1 and an action that raises on every
\* invocation, the finished call has invoked the action exactly max_retries
\* times and raised an error stating the attempt count max_retries.
C1_AlwaysRaisingInvokedMaxRetries ==
    (EaDone /\ max_retries >= 1 /\ succeedAt = 0)
        => /\ invocations = max_retries
           /\ ea_out.kind = "raise"
           /\ ea_out.attempts = max_retries

\* C1 (amended): with max_retries >= 1 and an action that raises on every
\* invocation, the finished call has made exactly max_retries attempts, each
\* of them either one invocation of the action or one failure of
\* ensure_browser to give a session, so the action was invoked exactly
\* max_retries times when no session creation failed and never more; the
\* call raised an error stating the attempt count max_retries.
C1_AlwaysRaisingAttemptsMaxRetries ==
    /\ (ea_pc # "idle" /\ succeedAt = 0) => invocations <= max_retries
    /\ (EaDone /\ max_retries >= 1 /\ succeedAt = 0)
          => /\ attempts = max_retries
             /\ invocations + sessionFailures = max_retries
             /\ (sessionFailures = 0 => invocations = max_retries)
             /\ ea_out.kind = "raise"
             /\ ea_out.attempts = max_retries

\* an always-raising action was retried to the bound, with more than one try
C1_Witness ==
    /\ ea_pc = "raised" /\ succeedAt = 0 /\ sessionFailures = 0
    /\ max_retries = MaxRetries /\ invocations = MaxRetries

\* C2 (as stated): for 1 <= k <= max_retries, an action that raises on its
\* first k-1 invocations and returns v on the k-th makes the finished call
\* return v after exactly k invocations.
C2_SucceedsAtKReturns ==
    (EaDone /\ succeedAt >= 1 /\ succeedAt <= max_retries)
        => /\ ea_out.kind = "return"
           /\ ea_out.value = action_value
           /\ invocations = succeedAt

\* C2 (amended): for 1 <= k <= max_retries, an action that raises on its
\* first k-1 invocations and returns v on the k-th makes the call return v
\* (falsy or not) after exactly k invocations, provided at most
\* max_retries - k attempts were used up by a failure of ensure_browser; a
\* call that returned has slept once per failed attempt and not after the
\* successful one, and a call that raised never reached the k-th invocation.
C2_SucceedsAtKReturnsIfSessions ==
    /\ (EaDone /\ succeedAt >= 1 /\ succeedAt <= max_retries
            /\ sessionFailures <= max_retries - succeedAt)
          => /\ ea_out.kind = "return"
             /\ ea_out.value = action_value
             /\ invocations = succeedAt
    /\ ea_pc = "returned"
          => /\ invocations = succeedAt
             /\ ea_out.value = action_value
             /\ Len(sleeps) = attempts
             /\ attempts = (succeedAt - 1) + sessionFailures
    /\ (ea_pc = "raised" /\ succeedAt >= 1) => invocations < succeedAt

\* a falsy value came back on the second invocation, after one backoff
C2_Witness ==
    /\ ea_pc = "returned" /\ succeedAt = 2 /\ invocations = 2
    /\ action_value = 0 /\ ea_out.value = 0 /\ Len(sleeps) = 1

\* ------------------------------------------------- claims on the workflow

\* the phases of the run, without the entry of the final cleanup
Phases == SelectSeq(events, LAMBDA e : e \notin {"closed", "quit_raised"})

\* the for loop over the vehicles has been entered
LoopEntered == Len(Phases) = 3 /\ Phases[3] = "setup_ok"

\* the for loop is over
LoopDone == LoopEntered /\ wf_pc \in {"finally", "returned"}

\* the number of vehicles so far whose record satisfies P
CountOutcomes(P(_)) == Cardinality({j \in 1..Len(outcomes) : P(outcomes[j])})

\* C3 (as stated): in a batch of N vehicles where the sticker extraction
\* raises for some of them, every vehicle is processed in order, each vehicle
\* whose extraction raised is recorded as a failure, and at the end of the run
\* vehicles_processed = N.
C3_ExtractionFailuresCounted ==
    (/\ wf_pc = "returned" /\ LoopEntered
     /\ \A j \in 1..Len(outcomes) : outcomes[j].raisedAt \in {"none", "extract"})
      => /\ Len(outcomes) = Len(vehicle_urls)
         /\ \A j \in 1..Len(outcomes) : outcomes[j].vehicle = vehicle_urls[j]
         /\ processing_stats["failed_updates"]
               >= CountOutcomes(LAMBDA o : o.raisedAt = "extract")
         /\ processing_stats["vehicles_processed"] = Len(vehicle_urls)

\* C6: whenever run_workflow has returned, the engine holds no browser
\* session: browser and session start time are None, also when quit raised.
C6_NoSessionAfterReturn ==
    wf_pc \in {"returned", "propagated"}
        => browser = NoBrowser /\ session_start_time = NoTime

\* the run ended with a session to close whose quit raised
C6_Witness ==
    /\ wf_pc = "returned"
    /\ events[Len(events)] = "quit_raised"
    /\ browser = NoBrowser /\ session_start_time = NoTime

\* C7: the phases run in the order authenticate, discover, process vehicles:
\* discovery only after the authentication returned, processing only after
\* discovery returned, no vehicle is touched unless all three set out well,
\* and a run whose authentication or discovery raised ends with the failure
\* reason and without a vehicle processed.
C7_PhaseOrder ==
    /\ wf_pc = "discover" => Phases = <<"auth_ok">>
    /\ wf_pc = "setup" => Phases = <<"auth_ok", "discover_ok">>
    /\ wf_pc = "vehicles" => Phases = <<"auth_ok", "discover_ok", "setup_ok">>
    /\ Len(outcomes) > 0 => LoopEntered
    /\ Len(Phases) >= 1 => Phases[1] \in {"auth_ok", "auth_raised"}
    /\ Len(Phases) >= 2 =>
          Phases[1] = "auth_ok" /\ Phases[2] \in {"discover_ok", "discover_raised"}
    /\ Len(Phases) >= 3 =>
          Phases[2] = "discover_ok" /\ Phases[3] \in {"setup_ok", "setup_raised"}
    /\ Len(Phases) <= 3
    /\ (wf_pc = "returned" /\ Phases[Len(Phases)] \in {"auth_raised", "discover_raised"})
          => /\ "error" \in DOMAIN processing_stats
             /\ Len(outcomes) = 0
             /\ processing_stats["vehicles_processed"] = 0

\* a run whose discovery raised has ended Failed
C7_Witness ==
    /\ wf_pc = "returned"
    /\ Phases = <<"auth_ok", "discover_raised">>
    /\ "error" \in DOMAIN processing_stats

\* one of the three phases of the run raised
PhaseRaised ==
    \E j \in 1..Len(Phases) :
        Phases[j] \in {"auth_raised", "discover_raised", "setup_raised"}

C9_AuthenticationFailureEndsRun ==
    /\ (wf_pc = "returned" /\ Len(Phases) >= 1 /\ Phases[1] = "auth_raised")
          => "error" \in DOMAIN processing_stats /\ Len(outcomes) = 0
    /\ \A j \in 1..Len(outcomes) :
          outcomes[j].raisedAt = "reauth"
             => /\ j = Len(outcomes)
                /\ wf_pc = "returned" => "error" \in DOMAIN processing_stats

\* C10: once the for loop has run over the n vehicles, each vehicle has
\* raised exactly one of successful_updates and failed_updates by one:
\* successful_updates counts the vehicles updated without a failed checkbox,
\* failed_updates the others, and the two add up to n.
C10_OneOutcomePerVehicle ==
    /\ LoopEntered =>
          /\ processing_stats["successful_updates"]
                = CountOutcomes(LAMBDA o : o.result = "success")
          /\ processing_stats["failed_updates"]
                = CountOutcomes(LAMBDA o : o.result \in {"failed", "raised"})
          /\ processing_stats["successful_updates"]
                + processing_stats["failed_updates"] = Len(outcomes)
    /\ LoopDone =>
          /\ Len(outcomes) = Len(vehicle_urls)
          /\ \A j \in 1..Len(outcomes) : outcomes[j].vehicle = vehicle_urls[j]
          /\ processing_stats["successful_updates"]
                + processing_stats["failed_updates"] = Len(vehicle_urls)

\* a batch of two: one vehicle with a failed checkbox, one updated cleanly
C10_Witness ==
    /\ LoopDone /\ Len(vehicle_urls) = 2
    /\ outcomes[1].result = "failed" /\ outcomes[2].result = "success"
    /\ processing_stats["successful_updates"] = 1
    /\ processing_stats["failed_updates"] = 1

\* C23: a failure to read the feature catalog during a run does not abort the
\* run: the run that returned after such a failure has no failure reason in
\* its statistics and has gone through every vehicle discovered.
C23_CatalogFailureDoesNotAbort ==
    (wf_pc = "returned" /\ wf_error = "catalog")
        => /\ "error" \notin DOMAIN processing_stats
           /\ Len(outcomes) = Len(vehicle_urls)

\* -------------------------------------------------- claims on the mapping

\* one feature text has been mapped, by either engine
MappedOne == m_op \in {"map_feature", "map_single_feature"}

\* the overrides of the table whose pattern, as written, is part of the
\* normalized text t
OverridesIn(t) ==
    {j \in 1..Len(dealership_overrides) :
        Contains(dealership_overrides[j].pattern, normalize_text(t))}

\* what an override match returns for the text t: the checkbox of the first
\* pattern whose lower-cased form is part of the normalized text, with 1.0
OverrideResult(t) ==
    LET j == CHOOSE j \in 1..Len(dealership_overrides) :
                /\ Contains(Lower(dealership_overrides[j].pattern),
                            normalize_text(t))
                /\ \A h \in 1..(j - 1) :
                      ~Contains(Lower(dealership_overrides[h].pattern),
                                normalize_text(t))
    IN [label |-> dealership_overrides[j].checkbox, conf |-> One,
        source |-> "override"]

\* C4 (as stated): whenever some override pattern is part of the normalized
\* feature text, mapping the feature returns the override's label with
\* confidence 1.0, whatever the catalog and the threshold.
C4_OverrideAlwaysWins ==
    (MappedOne /\ OverridesIn(m_input) # {})
        => m_result = OverrideResult(m_input)

\* C4 (amended): whenever some override pattern is part of the normalized
\* feature text, mapping the feature returns the override's label with
\* confidence 1.0, whatever the catalog and the threshold, except that
\* FeatureMappingModule.map_feature returns no match for the empty text
\* before it looks at the overrides.
C4_OverrideWinsUnlessEmptyText ==
    /\ (MappedOne /\ OverridesIn(m_input) # {}
           /\ ~(m_op = "map_feature" /\ m_input = <<>>))
          => m_result = OverrideResult(m_input)
    /\ (m_op = "map_feature" /\ m_input = <<>>) => m_result = NoMatch

\* an override won over the exact alias of another label, under a threshold
\* no fuzzy score reaches
C4_Witness ==
    /\ m_op = "map_single_feature"
    /\ OverridesIn(m_input) # {}
    /\ m_result.source = "override"
    /\ confidence_threshold > One
    /\ \E j \in 1..Len(Pairs(feature_mapping)) :
          /\ Pairs(feature_mapping)[j].alias = m_input
          /\ Pairs(feature_mapping)[j].label # m_result.label

\* C5: the dictionary map_features returns has as keys exactly the labels
\* some feature of the list was mapped to, each with the value True; a label
\* of the catalog no feature was mapped to is not a key.
C5_OnlyResolvedLabelsAllTrue ==
    m_op = "map_features" =>
       /\ \A l \in DOMAIN m_result :
             /\ m_result[l] = TRUE
             /\ \E j \in 1..Len(m_input) :
                   map_single_feature(m_input[j]).label = l
       /\ \A j \in 1..Len(m_input) :
             map_single_feature(m_input[j]) # NoMatch
                => map_single_feature(m_input[j]).label \in DOMAIN m_result
       /\ \A j \in 1..Len(feature_mapping) :
             (\A h \in 1..Len(m_input) :
                 map_single_feature(m_input[h]).label
                    # feature_mapping[j].label)
                => feature_mapping[j].label \notin DOMAIN m_result

\* two labels in the catalog, the list resolved to the first of them only
C5_Witness ==
    /\ m_op = "map_features"
    /\ Len(feature_mapping) = 2
    /\ Len(m_input) = 2
    /\ DOMAIN m_result = {"L1"}
    /\ m_result["L1"] = TRUE

\* the fuzzy pass of the call was entered: the text is not empty for
\* map_feature, no override matched and no alias matched exactly
InFuzzy ==
    /\ MappedOne
    /\ check_dealership_override(m_input) = NoMatch
    /\ m_op = "map_feature" =>
          /\ m_input # <<>>
          /\ \A j \in 1..Len(mapping_dict) :
                normalize_text(mapping_dict[j].alias) # normalize_text(m_input)
    /\ m_op = "map_single_feature" =>
          \A j \in 1..Len(Pairs(feature_mapping)) :
             Pairs(feature_mapping)[j].alias # m_input

\* the pairs the fuzzy pass of the call goes through, in its order
FuzzyPairs ==
    IF m_op = "map_feature" THEN mapping_dict ELSE Pairs(feature_mapping)

\* the final score of the j-th pair for the text of the call
FinalScore(j) ==
    IF m_op = "map_feature"
    THEN Min(One, calculate_similarity(FuzzyPairs[j].alias,
                                       normalize_text(m_input))
                  + get_category_boost(m_input))
    ELSE Min(One, similarity_algorithm(Lower(m_input),
                                       Lower(FuzzyPairs[j].alias))
                  + get_category_boost(m_input))

\* the best final score over the pairs, for a catalog that is not empty
BestFinal ==
    LET S == {FinalScore(j) : j \in 1..Len(FuzzyPairs)}
    IN CHOOSE x \in S : \A y \in S : y <= x

\* the label of the first pair that attains the best final score
FirstBestLabel ==
    LET j == CHOOSE j \in 1..Len(FuzzyPairs) :
                /\ FinalScore(j) = BestFinal
                /\ \A h \in 1..(j - 1) : FinalScore(h) # BestFinal
    IN FuzzyPairs[j].label

NormalizedEqual ==
    {j \in 1..Len(FuzzyPairs) :
        normalize_text(FuzzyPairs[j].alias) = normalize_text(m_input)}

\* C12: when no override matches and the normalized feature text is the
\* normalized form of some alias, the call returns the label of such an alias
\* with confidence 1.0 as an exact match, without the fuzzy pass; a text that
\* differs from an alias in case, punctuation or blanks only is such a text.
C12_NormalizedExactMatch ==
    (MappedOne /\ m_input # <<>> /\ OverridesIn(m_input) = {}
       /\ check_dealership_override(m_input) = NoMatch
       /\ NormalizedEqual # {})
        => /\ m_result.source = "exact"
           /\ m_result.conf = One
           /\ \E j \in NormalizedEqual : m_result.label = FuzzyPairs[j].label

\* base score plus category boost of the j-th pair of the call, not capped
Uncapped(j) ==
    get_category_boost(m_input)
    + (IF m_op = "map_feature"
       THEN calculate_similarity(FuzzyPairs[j].alias, normalize_text(m_input))
       ELSE similarity_algorithm(Lower(m_input), Lower(FuzzyPairs[j].alias)))

\* C13: every confidence the mapping produces lies in [0, 1]; a fuzzy match
\* has the score of one of its pairs, base plus boost, and that score is
\* exactly 1.0 when base plus boost is above 1.0.
C13_ConfidenceInUnitInterval ==
    MappedOne =>
       /\ 0 <= m_result.conf /\ m_result.conf <= One
       /\ m_result.source = "fuzzy" =>
             \E j \in 1..Len(FuzzyPairs) :
                /\ m_result.label = FuzzyPairs[j].label
                /\ m_result.conf
                      = (IF Uncapped(j) > One THEN One ELSE Uncapped(j))

\* a fuzzy match reported with 1.0 whose base score is below 1.0 and whose
\* base score plus boost is above 1.0
C13_Witness ==
    /\ m_op = "map_feature"
    /\ m_result.source = "fuzzy"
    /\ m_result.conf = One
    /\ get_category_boost(m_input) > 0
    /\ \A j \in 1..Len(FuzzyPairs) :
          calculate_similarity(FuzzyPairs[j].alias, normalize_text(m_input))
             < One
    /\ \E j \in 1..Len(FuzzyPairs) : Uncapped(j) > One

\* C14: a fuzzy match returns the label of the first pair, in the iteration
\* order of the catalog, that attains the best final score; a later pair
\* with the same score does not replace it.
C14_FirstBestPairWins ==
    (MappedOne /\ m_result.source = "fuzzy") =>
       /\ m_result.label = FirstBestLabel
       /\ m_result.conf = BestFinal

\* two pairs of different labels attain the best score and the label of the
\* first one came back
C14_Witness ==
    /\ MappedOne /\ m_result.source = "fuzzy"
    /\ \E j, h \in 1..Len(FuzzyPairs) :
          /\ j < h
          /\ FinalScore(j) = BestFinal /\ FinalScore(h) = BestFinal
          /\ FuzzyPairs[j].label # FuzzyPairs[h].label
          /\ m_result.label = FuzzyPairs[j].label

\* ------------------------------------------------- claims on the learner

\* the labels the text t was corrected to, oldest first
RecordsOf(t) ==
    IF EntryOf(corrections, t) = 0 THEN <<>>
    ELSE corrections[EntryOf(corrections, t)].news

\* the entries of the suggestions returned that are about the text t
SuggestionsFor(t) == {j \in 1..Len(l_result) : l_result[j].text = t}

C16_CorrectionTakesEffectAtOnce ==
    l_op = "record_correction" =>
       map_single_feature(l_arg.text).label = l_arg.new

\* C17: the value apply_suggestions returns is the number of catalog
\* mutations the call performed, also when a mutation raised after earlier
\* ones of the same call were done.
C17_ReturnsMutationsPerformed ==
    l_op = "apply_suggestions" => l_result = l_mutations

\* the records of the text t in the corrections file
SavedRecordsOf(t) ==
    IF EntryOf(corrections_doc, t) = 0 THEN <<>>
    ELSE corrections_doc[EntryOf(corrections_doc, t)].news

\* the call of record_correction reached the save and the save failed
SaveFailed ==
    /\ l_op = "record_correction"
    /\ l_mutations = 1
    /\ corrections_doc # corrections

\* C24: record_correction always returns a truth value; when its save failed
\* it returns False, the file is behind the memory, and the new record is the
\* last of the in-memory history of its text, where suggest_improvements
\* counts it: a text with 3 or more in-memory records of one label is
\* suggested whatever the file holds.
C24_FailedSaveKeepsRecord ==
    /\ l_op = "record_correction" => l_result \in BOOLEAN
    /\ SaveFailed =>
          LET news == RecordsOf(l_arg.text) IN
          /\ l_result = FALSE
          /\ Len(news) > Len(SavedRecordsOf(l_arg.text))
          /\ news[Len(news)] = l_arg.new
    /\ \A t \in LearnTexts :
          LET news == RecordsOf(t) IN
          (Len(news) >= 3 /\ \A j \in 1..Len(news) : news[j] = news[1])
             => \E j \in 1..Len(suggest_improvements(corrections)) :
                   /\ suggest_improvements(corrections)[j].text = t
                   /\ suggest_improvements(corrections)[j].label = news[1]

\* a correction whose save failed is the third record of its text: the text
\* is suggested from the memory although the file holds fewer records of it
C24_Witness ==
    /\ SaveFailed /\ l_result = FALSE
    /\ Len(RecordsOf(l_arg.text)) = 3
    /\ Len(SavedRecordsOf(l_arg.text)) < 3
    /\ \E j \in 1..Len(suggest_improvements(corrections)) :
          suggest_improvements(corrections)[j].text = l_arg.text

\* the history of the text t in the corrections corr
HistoryOf(corr, t) ==
    IF EntryOf(corr, t) = 0 THEN <<>> ELSE corr[EntryOf(corr, t)].news

\* a step of record_correction: the history of its text gets the new record
\* at its end and every other history is left as it was
AppendsOneRecord ==
    /\ l_op' = "record_correction"
    /\ HistoryOf(corrections', l_arg'.text)
          = Append(HistoryOf(corrections, l_arg'.text), l_arg'.new)
    /\ \A t \in LearnTexts \ {l_arg'.text} :
          HistoryOf(corrections', t) = HistoryOf(corrections, t)

\* C25: the correction history is append-only: a record_correction call adds
\* exactly one record at the end of the history of its text and leaves every
\* other history alone; suggest_improvements and apply_suggestions leave
\* every history as it was.
C25_HistoryAppendOnly ==
    [][IF l_calls' # l_calls
       THEN AppendsOneRecord
       ELSE \A t \in LearnTexts :
               HistoryOf(corrections', t) = HistoryOf(corrections, t)]_vars

\* a correction to another label was appended to a history that already held
\* a record, while another text has a history of its own
C25_Witness ==
    /\ l_op = "record_correction"
    /\ Len(RecordsOf(l_arg.text)) >= 2
    /\ RecordsOf(l_arg.text)[1] # l_arg.new
    /\ \E u \in LearnTexts \ {l_arg.text} : RecordsOf(u) # <<>>

\* C26: a vehicle whose extraction returned an empty list is skipped, it is
\* counted neither as a successful nor as a failed update: while no vehicle
\* of the run raised and no feature was found, both counters are 0.
C26_EmptyExtractionSkipped ==
    (/\ wf_pc = "vehicles"
     /\ processing_stats["features_found"] = 0
     /\ \A j \in 1..Len(outcomes) : outcomes[j].raisedAt = "none")
        => /\ processing_stats["successful_updates"] = 0
           /\ processing_stats["failed_updates"] = 0

\* the label is a key of mapped_features
IsKey(label) == \E k \in 1..Len(cb_mapping) : cb_mapping[k].label = label

\* the value mapped_features has for a label that is a key
MappedValue(label) ==
    cb_mapping[CHOOSE k \in 1..Len(cb_mapping) :
                  cb_mapping[k].label = label].value

C28_AbsentBoxesKeepState ==
    cb_op = "manage_vehicle_checkboxes" =>
       \A j \in 1..Len(cb_page) :
          ~InList(cb_page[j].label, cb_to_check) =>
             /\ cb_page[j].checked = cb_before[j].checked
             /\ ~InList(cb_page[j].label, cb_result.error_checkboxes)

\* C29: mapping an empty feature text gives the no-match result at once,
\* whatever the catalog and the override table are: the result is None and
\* _map_single_feature has computed no similarity score.
C29_EmptyTextNoMatchAtOnce ==
    (MappedOne /\ m_input = <<>>) =>
       /\ m_result = NoMatch
       /\ m_op = "map_single_feature" => scores_computed(m_input) = 0

\* C30 (as stated): normalize_text is idempotent, gives the empty string
\* for an empty or missing text, and gives one normal form for two texts that
\* differ in letter case only, in punctuation standing for whitespace only,
\* or in the length of whitespace runs and leading or trailing whitespace.
C30_NormalFormOfVariants ==
    nt_op = "normalized" =>
       /\ nt_nnx = nt_nx
       /\ (nt_missing \/ nt_x = <<>>) => nt_nx = <<>>
       /\ nt_rel # "none" => nt_ny = nt_nx

\* C30 (amended): the same, with the underscore taken out of the punctuation
\* that may stand for whitespace.
C30_NormalFormExceptUnderscore ==
    nt_op = "normalized" =>
       /\ nt_nnx = nt_nx
       /\ (nt_missing \/ nt_x = <<>>) => nt_nx = <<>>
       /\ nt_rel \in {"case", "punct", "space"} => nt_ny = nt_nx

\* a text with an upper-case letter and a variant with a hyphen for a blank
\* between two word characters have been normalized
C30_Witness ==
    /\ nt_op = "normalized"
    /\ nt_rel = "punct"
    /\ nt_x # nt_y
    /\ Len(nt_nx) = MaxText
    /\ nt_nx # nt_x
    /\ nt_nx[2] = " "

\* C31: the similarity score of two texts is between 0 and 1, is the same
\* in both orders of the texts, and is 1 for a non-empty normalized text
\* scored against itself.
C31_ScoreBoundedSymmetric ==
    sm_op # "none" =>
       /\ 0 <= sm_ab /\ sm_ab <= One
       /\ sm_ab = sm_ba
       /\ (sm_a = sm_b /\ sm_a # <<>>) => sm_ab = One

\* C32: within one call of execute_action, the action is invoked only from
\* the position after ensure_browser returned in the same attempt and with
\* the session it returned, which is the engine's open session; a session
\* that was kept was found valid by age, any other is new; an attempt in
\* which ensure_browser raised invokes no action and is counted as one of
\* the attempts.
C32_ActionAfterSessionCheck ==
    [][ea_calls' = ea_calls =>
         /\ invocations' # invocations =>
               /\ ea_pc = "action"
               /\ invocations' = invocations + 1
               /\ ea_browser = browser
               /\ browser # NoBrowser /\ browser \in openSessions
               /\ session_start_time # NoTime
         /\ (ea_pc' = "action" /\ ea_pc # "action") =>
               /\ ea_pc = "ensure"
               /\ ea_browser' = browser'
               /\ browser' # NoBrowser
               /\ IF browser' = browser
                  THEN now - session_start_time < session_timeout
                  ELSE browser' \notin openSessions
                       /\ session_start_time' = now
         /\ sessionFailures' # sessionFailures =>
               /\ ea_pc = "ensure" /\ ea_pc' = "except"
               /\ sessionFailures' = sessionFailures + 1
               /\ invocations' = invocations
         /\ ea_pc' = "loop" =>
               attempts' = invocations' + sessionFailures']_vars

\* the action is about to be invoked a second time in a call, on a session
\* created after an attempt was lost to a session that could not be created
C32_Witness ==
    /\ ea_pc = "action"
    /\ sessionFailures >= 1
    /\ invocations >= 1
    /\ ea_browser = browser /\ browser \in openSessions

\* C33: at every point of a run at most one browser session is open, and
\* when run_workflow has returned every session opened during the run has
\* been closed.
C33_OneSessionAtATime ==
    /\ Cardinality(openSessions) <= 1
    /\ wf_pc = "returned" => openSessions = {}

\* the first pattern of the override table whose normalized form is part of
\* the normalized text t, or 0
FirstNormalizedPattern(t) ==
    FirstIndex(dealership_overrides,
               LAMBDA o : Contains(normalize_text(o.pattern),
                                   normalize_text(t)))

\* C34: the override lookup returns the checkbox of the first pattern of the
\* table whose normalized form is part of the normalized feature text, with
\* confidence 1.0, and no override exactly when there is no such pattern.
C34_FirstNormalizedPatternWins ==
    m_op = "map_single_feature" =>
       LET j == FirstNormalizedPattern(m_input)
           found == check_dealership_override(m_input)
       IN IF j = 0 THEN found = NoMatch
          ELSE found = [label |-> dealership_overrides[j].checkbox,
                        conf |-> One, source |-> "override"]

\* discovery has returned in the present run
DiscoveryReturned == \E j \in 1..Len(events) : events[j] = "discover_ok"

\* C35: with a limit m > 0 and more than m vehicles discovered, the vehicles
\* to process are the first m in discovery order; with at most m discovered,
\* or m <= 0, they are all the vehicles discovered; the vehicles are
\* processed in this order, and all of them once the loop is over.
C35_BatchLimitKeepsFirst ==
    DiscoveryReturned =>
       LET m == max_vehicles_per_batch
           n == wf_discovered
       IN /\ Len(vehicle_urls) = IF m > 0 /\ n > m THEN m ELSE n
          /\ \A j \in 1..Len(vehicle_urls) : vehicle_urls[j] = j
          /\ Len(outcomes) <= Len(vehicle_urls)
          /\ \A j \in 1..Len(outcomes) : outcomes[j].vehicle = vehicle_urls[j]
          /\ LoopDone => Len(outcomes) = Len(vehicle_urls)

\* a run with a limit of 1 that discovered 2 vehicles is over: one vehicle
\* was processed
C35_Witness ==
    /\ LoopDone
    /\ max_vehicles_per_batch = 1
    /\ wf_discovered = 2
    /\ Len(outcomes) = 1

\* a call of apply_suggestions that follows a call of apply_suggestions
\* performs no catalog mutation, leaves the catalog as it is and returns 0
SecondApplyChangesNothing ==
    (l_op = "apply_suggestions" /\ l_op' = "apply_suggestions") =>
       /\ feature_mapping' = feature_mapping
       /\ l_mutations' = 0
       /\ l_result' = 0

BaseScore(j) ==
    IF m_op = "map_feature"
    THEN calculate_similarity(FuzzyPairs[j].alias, normalize_text(m_input))
    ELSE similarity_algorithm(Lower(m_input), Lower(FuzzyPairs[j].alias))

\* C37: the category boost never changes which label wins the fuzzy pass of
\* _map_single_feature: the label returned is one that has an alias with the
\* greatest base score among all aliases of the catalog.
C37_WinnerHasBestBaseScore ==
    (InFuzzy /\ m_op = "map_single_feature" /\ m_result # NoMatch) =>
       \E j \in 1..Len(FuzzyPairs) :
          /\ FuzzyPairs[j].label = m_result.label
          /\ \A h \in 1..Len(FuzzyPairs) : BaseScore(h) <= BaseScore(j)

\* the step is the iteration of a vehicle that raised in its
\* re-authentication, extraction, mapping or checkbox update
VehicleRaisedStep ==
    /\ Len(outcomes') = Len(outcomes) + 1
    /\ outcomes'[Len(outcomes')].raisedAt
          \in {"reauth", "extract", "map", "update"}

\* C38: a vehicle whose processing raises changes failed_updates by exactly
\* +1 and leaves every other counter of the statistics as it was before the
\* vehicle.
C38_RaisingVehicleOnlyFails ==
    [][VehicleRaisedStep =>
          processing_stats' = Inc(processing_stats, "failed_updates", 1)]_vars

\* every step of the login form succeeds, no error message appears within
\* its timeout and the dashboard element appears
LoginPageAccepts(page) ==
    /\ page.nav /\ page.user /\ page.pass /\ page.click
    /\ ~page.error
    /\ page.dashboard

\* C39 (as stated): without 2FA, login() returns True, and is_authenticated
\* is set, exactly when navigation, credential entry and the login click
\* succeed, no login error message appears within its timeout and the
\* dashboard element appears; and is_element_present reports an element
\* that does not appear within the timeout as not present.
C39_LoginExactlyWhenPageAccepts ==
    (au_op = "login" /\ ~au_config.requires_2fa) =>
        /\ au_result <=> LoginPageAccepts(au_page)
        /\ au_result => is_authenticated
        /\ ~au_page.error => ~is_element_present(au_page.error)
        /\ ~au_page.dashboard => ~is_element_present(au_page.dashboard)

\* ------------------------------------------------ claims on the sessions

\* the session ensure_browser found was one to keep: it exists, the probe
\* succeeded and its age is strictly below the maximum
FoundValid ==
    /\ eb.before.browser # NoBrowser
    /\ eb.before.sst # NoTime
    /\ eb.probe
    /\ eb.at - eb.before.sst < session_timeout

\* C18: ensure_browser keeps and returns the session it found exactly when
\* that session exists, answers the probe and is younger than the maximum
\* age; in every other case it closes the session it found, if any, and
\* creates a new one, which it returns with the time of the call as its
\* start time (a failure to create it is raised to the caller).
C18_KeepsSessionIffValid ==
    eb.called =>
       /\ FoundValid =>
             /\ ~eb.raised
             /\ eb.returned = eb.before.browser
             /\ Eng = eb.before
       /\ ~FoundValid =>
             /\ eb.before.browser # NoBrowser =>
                   /\ browser # eb.before.browser
                   /\ eb.returned # eb.before.browser
                   /\ eb.quitOk => eb.before.browser \notin openSessions
             /\ ~eb.raised =>
                   /\ eb.returned = browser
                   /\ browser # NoBrowser
                   /\ browser \notin eb.before.open
                   /\ browser \in openSessions
                   /\ session_start_time = eb.at
             /\ eb.raised <=> (eb.io # "ok" \/ eb.before.next > MaxSessions)

\* a session that answered the probe at exactly the maximum age was closed
\* and replaced by a new one
C18_Witness ==
    /\ eb.called /\ ~eb.raised
    /\ eb.before.browser # NoBrowser
    /\ eb.probe
    /\ eb.at - eb.before.sst = session_timeout
    /\ browser # eb.before.browser
    /\ eb.before.browser \notin openSessions
    /\ session_start_time = eb.at

\* C19: the n-th backoff sleep of a call of execute_action lasts 2^n, a call
\* that has failed n times and goes on has slept n times, and a call that
\* raised after max_retries failures has slept max_retries - 1 times, not
\* after the last failure: 2 + 4 + ... + 2^(max_retries - 1) in all.
C19_BackoffDelays ==
    /\ \A n \in 1..Len(sleeps) : sleeps[n] = 2 ^ n
    /\ ea_pc \in {"loop", "ensure", "action"} => Len(sleeps) = attempts
    /\ ea_pc = "returned" => Len(sleeps) = attempts
    /\ (ea_pc = "raised" /\ max_retries >= 1)
          => /\ attempts = max_retries
             /\ sleeps = [n \in 1..(max_retries - 1) |-> 2 ^ n]
    /\ (ea_pc = "raised" /\ max_retries = 0) => sleeps = <<>>

\* a call with the greatest bound failed every attempt and slept before
\* every retry
C19_Witness ==
    /\ ea_pc = "raised"
    /\ max_retries = MaxRetries
    /\ Len(sleeps) = MaxRetries - 1
    /\ sleeps[1] = 2

\* --------------------------------------------- claims on the mapping file

\* C20: a run that loads the file reads one complete document, whatever the
\* other run is doing, and when no run is inside a save the file holds one
\* complete document.
C20_NoTornDocument ==
    /\ \A r \in Runs : f_pc[r] = "loaded" => IsDocument(f_seen[r])
    /\ (\A r \in Runs : f_pc[r] # "writing") => IsDocument(file)

\* ---------------------------------------------- claims on the scheduled jobs

\* C21: two jobs that overlap share no session and no statistics: while a
\* job runs, the counters of the module are those of its own vehicles (the
\* other job neither resets nor raises them) and the session of the engine
\* is the one its own authentication left, still open; the statistics a job
\* returned hold the counters of its own vehicles.
C21_JobsShareNothing ==
    \A r \in Runs :
       /\ Running(r) => Counters(processing_stats) = Counters(s_own[r])
       /\ s_pc[r] \in {"discover", "vehicles"} =>
             /\ browser = s_session[r]
             /\ s_session[r] # NoBrowser => s_session[r] \in openSessions
       /\ s_pc[r] = "returned" => Counters(s_ret[r]) = Counters(s_own[r])

\* ------------------------------------------------ claims on the loading

\* C22: the construction of a mapper lets no exception out, whatever the
\* mapping file and the override file are; a mapping file that is missing,
\* unreadable or corrupt gives the empty catalog and such an override file
\* the empty override table.
C22_LoadNeverRaises ==
    ld_op # "none" =>
       /\ ld_raised = NoError
       /\ mapping_store.kind # "ok" => feature_mapping = <<>>
       /\ override_store.kind # "ok" => dealership_overrides = <<>>

====
